---- MODULE Spec2Model ----
(***************************************************************************)
(* Model of the subject-line parser of nzbparser (subject.go).             *)
(*                                                                         *)
(* A string is a sequence of one-character strings.  The regular           *)
(* expressions of the source are transcribed as syntax trees and executed  *)
(* by a backtracking matcher that returns the leftmost-first match with    *)
(* its submatches, which is the match Go's regexp package reports.         *)
(* ParseSubject is modelled pass by pass; each pass is one action.         *)
(* ParseWithOptions (nzbparser.go) is modelled from the decoded document   *)
(* on: MakeUnique, ScanNzbFile and the two sorts are one action each.      *)
(***************************************************************************)
EXTENDS Integers, Sequences, FiniteSets, TLC

VARIABLES s, pc, subject, remainder, foundNumbers, err

\* a call of ParseWithOptions: the decoded document, the options, the Nzb
\* structure under construction, the position in the body, the error
VARIABLES xnzb, opts, nzb, npc, nerr

nzbVars == <<xnzb, opts, nzb, npc, nerr>>

vars == <<s, pc, subject, remainder, foundNumbers, err, xnzb, opts, nzb, npc, nerr>>

----------------------------------------------------------------------------
(* Bounds of the model. *)

\* number of tokens concatenated into an input subject line
MaxTokens == 2
\* number of tokens in the inputs of the numbering specification
MaxNumTokens == 3
\* number of tokens in the inputs of the quoted-span specification
MaxQuoteTokens == 3
\* the largest number of tokens of an input of SpecName
MaxNameTokens == 3
\* the largest number of file entries of a decoded document
MaxFiles == 2
\* the largest number of segment entries of a file entry
MaxSegs == 2
\* the largest number of tokens of an input of SpecSplit
MaxSplitTokens == 3

----------------------------------------------------------------------------
(* Characters and strings. *)

DigitSeq == <<"0", "1", "2", "3", "4", "5", "6", "7", "8", "9">>
LowerSeq == <<"a", "b", "c", "d", "e", "f", "g", "h", "i", "j", "k", "l", "m",
              "n", "o", "p", "q", "r", "s", "t", "u", "v", "w", "x", "y", "z">>
UpperSeq == <<"A", "B", "C", "D", "E", "F", "G", "H", "I", "J", "K", "L", "M",
              "N", "O", "P", "Q", "R", "S", "T", "U", "V", "W", "X", "Y", "Z">>

Range(q) == {q[i] : i \in 1..Len(q)}

Digit == Range(DigitSeq)
Lower == Range(LowerSeq)
Upper == Range(UpperSeq)
Punct == {" ", "-", ".", "/", "\"", "[", "]", "(", ")", "<", ">", "+"}
Char == Digit \cup Lower \cup Upper \cup Punct

\* unicode.ToLower / unicode.ToUpper restricted to the model's characters
ToLowerChar(c) == IF c \in Upper THEN LowerSeq[CHOOSE i \in 1..26 : UpperSeq[i] = c] ELSE c
ToUpperChar(c) == IF c \in Lower THEN UpperSeq[CHOOSE i \in 1..26 : LowerSeq[i] = c] ELSE c

\* strings.ToLower
ToLower(str) == [i \in 1..Len(str) |-> ToLowerChar(str[i])]

\* strings.EqualFold
EqualFold(a, b) == ToLower(a) = ToLower(b)

SubStr(str, a, b) == IF a > b THEN <<>> ELSE SubSeq(str, a, b)

\* strings.Trim(str, cutset): drop leading and trailing characters of cutset
RECURSIVE TrimLeft(_, _)
TrimLeft(str, cutset) ==
  IF str # <<>> /\ Head(str) \in cutset THEN TrimLeft(Tail(str), cutset) ELSE str

RECURSIVE TrimRight(_, _)
TrimRight(str, cutset) ==
  IF str # <<>> /\ str[Len(str)] \in cutset
  THEN TrimRight(SubStr(str, 1, Len(str) - 1), cutset) ELSE str

Trim(str, cutset) == TrimRight(TrimLeft(str, cutset), cutset)

\* strings.TrimSpace; the space is the only white-space character of Char
TrimSpace(str) == Trim(str, {" "})

\* strings.LastIndex(str, c) for a one-character c, 1-based; 0 when absent
LastIndex(str, c) ==
  IF \E i \in 1..Len(str) : str[i] = c
  THEN CHOOSE i \in 1..Len(str) : str[i] = c /\ \A j \in (i + 1)..Len(str) : str[j] # c
  ELSE 0

DigitVal(c) == (CHOOSE i \in 1..10 : DigitSeq[i] = c) - 1

\* strconv.Atoi with the error dropped: 0 for a string that is not a number.
\* (Digit strings of the model are far below the 64-bit range.)
RECURSIVE AtoiAcc(_, _)
AtoiAcc(str, acc) ==
  IF str = <<>> THEN acc ELSE AtoiAcc(Tail(str), acc * 10 + DigitVal(Head(str)))

Atoi(str) ==
  IF str = <<>> \/ \E i \in 1..Len(str) : str[i] \notin Digit THEN 0 ELSE AtoiAcc(str, 0)

----------------------------------------------------------------------------
(* Regular expressions: syntax trees. *)

CharSet(S) == [t |-> "set", s |-> S]
Ch(c) == CharSet({c})
\* a letter under the (?i) flag
ChI(c) == CharSet({ToLowerChar(c), ToUpperChar(c)})
Dot == CharSet(Char)
Not(S) == CharSet(Char \ S)
Cat(rs) == [t |-> "cat", rs |-> rs]
Alt(rs) == [t |-> "alt", rs |-> rs]
Star(r) == [t |-> "star", r |-> r]
LazyStar(r) == [t |-> "lazy", r |-> r]
Eps == Cat(<<>>)
Opt(r) == Alt(<<r, Eps>>)
Plus(r) == Cat(<<r, Star(r)>>)
LazyPlus(r) == Cat(<<r, LazyStar(r)>>)
Grp(n, r) == [t |-> "grp", n |-> n, r |-> r]
Bol == [t |-> "bol"]
Eol == [t |-> "eol"]
\* a literal word under the (?i) flag
LitI(w) == [t |-> "lit", w |-> ToLower(w)]

----------------------------------------------------------------------------
(* Regular expressions: matching.                                          *)
(*                                                                         *)
(* A match state is a position in the string and the submatches so far.    *)
(* Ends(re, str, st) is the sequence of the states in which a match of re  *)
(* begun in state st can end, in the order in which a backtracking matcher *)
(* tries them: first alternative first, a greedy repetition longest first, *)
(* a lazy repetition shortest first.  The first match of this order that   *)
(* starts leftmost is the match Go's regexp package reports.               *)

\* the number of consecutive characters of str from position i that are in S
RunLen(str, i, S) ==
  IF i <= Len(str) /\ str[i] \in S
  THEN LET stop == {j \in i..Len(str) : str[j] \notin S}
       IN IF stop = {} THEN Len(str) - i + 1
          ELSE (CHOOSE j \in stop : \A k \in stop : j <= k) - i
  ELSE 0

RECURSIVE Ends(_, _, _)
RECURSIVE EndsAll(_, _, _, _, _)
RECURSIVE CatEnds(_, _, _, _)
RECURSIVE AltEnds(_, _, _, _, _)

\* the ends of re from each of the states sts[lo..hi], in order
EndsAll(re, str, sts, lo, hi) ==
  IF lo > hi THEN <<>>
  ELSE IF lo = hi THEN Ends(re, str, sts[lo])
  ELSE EndsAll(re, str, sts, lo, (lo + hi) \div 2)
         \o EndsAll(re, str, sts, (lo + hi) \div 2 + 1, hi)

\* the ends of the concatenation rs[k..] from the states sts
CatEnds(rs, k, str, sts) ==
  IF k > Len(rs) \/ sts = <<>> THEN sts
  ELSE CatEnds(rs, k + 1, str, EndsAll(rs[k], str, sts, 1, Len(sts)))

\* the ends of the alternatives rs[lo..hi] from the state st, in order
AltEnds(rs, lo, hi, str, st) ==
  IF lo > hi THEN <<>>
  ELSE IF lo = hi THEN Ends(rs[lo], str, st)
  ELSE AltEnds(rs, lo, (lo + hi) \div 2, str, st)
         \o AltEnds(rs, (lo + hi) \div 2 + 1, hi, str, st)

Ends(re, str, st) ==
  CASE re.t = "set" ->
         IF st.pos <= Len(str) /\ str[st.pos] \in re.s
         THEN <<[st EXCEPT !.pos = @ + 1]>> ELSE <<>>
    [] re.t = "lit" ->
         IF st.pos + Len(re.w) - 1 <= Len(str)
            /\ ToLower(SubStr(str, st.pos, st.pos + Len(re.w) - 1)) = re.w
         THEN <<[st EXCEPT !.pos = @ + Len(re.w)]>> ELSE <<>>
    [] re.t = "cat" -> CatEnds(re.rs, 1, str, <<st>>)
    [] re.t = "alt" -> AltEnds(re.rs, 1, Len(re.rs), str, st)
    [] re.t = "star" /\ re.r.t = "set" ->
         LET n == RunLen(str, st.pos, re.r.s)
         IN [k \in 1..(n + 1) |-> [st EXCEPT !.pos = st.pos + n + 1 - k]]
    [] re.t = "lazy" /\ re.r.t = "set" ->
         LET n == RunLen(str, st.pos, re.r.s)
         IN [k \in 1..(n + 1) |-> [st EXCEPT !.pos = st.pos + k - 1]]
    [] re.t = "star" /\ re.r.t # "set" ->
         LET once == SelectSeq(Ends(re.r, str, st), LAMBDA e : e.pos > st.pos)
         IN EndsAll(re, str, once, 1, Len(once)) \o <<st>>
    [] re.t = "lazy" /\ re.r.t # "set" ->
         LET once == SelectSeq(Ends(re.r, str, st), LAMBDA e : e.pos > st.pos)
         IN <<st>> \o EndsAll(re, str, once, 1, Len(once))
    [] re.t = "grp" ->
         LET es == Ends(re.r, str, st)
         IN [k \in 1..Len(es) |->
               [es[k] EXCEPT !.caps[re.n] = SubStr(str, st.pos, es[k].pos - 1)]]
    [] re.t = "bol" -> IF st.pos = 1 THEN <<st>> ELSE <<>>
    [] re.t = "eol" -> IF st.pos = Len(str) + 1 THEN <<st>> ELSE <<>>

NoMatch == [ok |-> FALSE]

\* the match of re in str that starts at position pos, if any
MatchAt(re, names, str, pos) ==
  LET First(es) ==
        IF es = <<>> THEN NoMatch
        ELSE [ok |-> TRUE, start |-> pos, end |-> es[1].pos, caps |-> es[1].caps]
  IN First(Ends(re, str, [pos |-> pos, caps |-> [n \in names |-> <<>>]]))

\* the first match of re in str that starts at one of the positions lo..hi
RECURSIVE FirstMatch(_, _, _, _, _)
FirstMatch(re, names, str, lo, hi) ==
  IF lo > hi THEN NoMatch
  ELSE IF lo = hi THEN MatchAt(re, names, str, lo)
  ELSE LET m == FirstMatch(re, names, str, lo, (lo + hi) \div 2)
       IN IF m.ok THEN m ELSE FirstMatch(re, names, str, (lo + hi) \div 2 + 1, hi)

\* The leftmost match of re in str that starts at pos or later; a group
\* that takes no part in the match is the empty string.
Find(re, names, str, pos) == FirstMatch(re, names, str, pos, Len(str) + 1)

\* regexp.FindAllStringSubmatch(str, -1): successive non-overlapping
\* matches; an empty match abutting the preceding match is dropped.
RECURSIVE AllMatches(_, _, _, _, _)
AllMatches(re, names, str, pos, prevMatchEnd) ==
  IF pos > Len(str) + 1 THEN <<>>
  ELSE LET Rest(m) ==
             IF ~m.ok THEN <<>>
             ELSE LET empty == (m.end = pos)
                      accept == ~(empty /\ m.start = prevMatchEnd)
                  IN (IF accept THEN <<m.caps>> ELSE <<>>)
                       \o AllMatches(re, names, str,
                                     IF empty THEN pos + 1 ELSE m.end, m.end)
       IN Rest(Find(re, names, str, pos))

\* findAllNamedMatches: the named submatches of every match (<<>> for nil)
findAllNamedMatches(re, names, str) == AllMatches(re, names, str, 1, 0)

\* regexp.FindStringSubmatch
FindStringSubmatch(re, names, str) == Find(re, names, str, 1)

\* regexp.MatchString
MatchString(re, str) == Find(re, {}, str, 1).ok

Sp == Ch(" ")
Quote == Ch("\"")
D == CharSet(Digit)

----------------------------------------------------------------------------
(* Pass 1: file and segment numbers, [X/Y] and (X/Y). *)

\* (?i)(?:(?P<remainder>.*?) *(?:(?P<files>(?:"?\[|[<[]? *)(?P<file>\d+) */ *
\*   (?P<totalfiles>\d+) *(?:\]"?|[>\]])?)|(?P<segments>"?\((?P<segment>\d+)
\*   */ *(?P<totalsegments>\d+)\)"?))|.*$)
numbersRE ==
  Alt(<<
    Cat(<< Grp("remainder", LazyStar(Dot)), Star(Sp),
      Alt(<<
        Grp("files", Cat(<<
          Alt(<< Cat(<<Opt(Quote), Ch("[")>>), Cat(<<Opt(CharSet({"<", "["})), Star(Sp)>>) >>),
          Grp("file", Plus(D)), Star(Sp), Ch("/"), Star(Sp),
          Grp("totalfiles", Plus(D)), Star(Sp),
          Opt(Alt(<< Cat(<<Ch("]"), Opt(Quote)>>), CharSet({">", "]"}) >>)) >>)),
        Grp("segments", Cat(<<
          Opt(Quote), Ch("("), Grp("segment", Plus(D)), Star(Sp), Ch("/"), Star(Sp),
          Grp("totalsegments", Plus(D)), Ch(")"), Opt(Quote) >>)) >>) >>),
    Cat(<<Star(Dot), Eol>>) >>)

numbersNames ==
  {"remainder", "files", "file", "totalfiles", "segments", "segment", "totalsegments"}

\* A variant of AssignNumbers without the shift: the second pair of the same
\* shape takes the free role and the first pair keeps its own.
AssignNumbersNoShift(m, st) ==
  IF st.File = 0 /\ st.Segment = 0
  THEN IF m["files"] # <<>>
       THEN [st EXCEPT !.found = TRUE, !.File = Atoi(m["file"]),
                       !.TotalFiles = Atoi(m["totalfiles"])]
       ELSE IF m["segments"] # <<>>
       THEN [st EXCEPT !.found = TRUE, !.Segment = Atoi(m["segment"]),
                       !.TotalSegments = Atoi(m["totalsegments"])]
       ELSE st
  ELSE IF st.TotalFiles = 0 \/ st.TotalSegments = 0
  THEN IF m["files"] # <<>>
       THEN IF st.TotalSegments = 0
            THEN [st EXCEPT !.found = TRUE, !.Segment = Atoi(m["file"]),
                            !.TotalSegments = Atoi(m["totalfiles"])]
            ELSE [st EXCEPT !.found = TRUE, !.File = Atoi(m["file"]),
                            !.TotalFiles = Atoi(m["totalfiles"])]
       ELSE IF m["segments"] # <<>>
       THEN IF st.TotalSegments # 0
            THEN [st EXCEPT !.found = TRUE, !.File = Atoi(m["segment"]),
                            !.TotalFiles = Atoi(m["totalsegments"])]
            ELSE [st EXCEPT !.found = TRUE, !.Segment = Atoi(m["segment"]),
                            !.TotalSegments = Atoi(m["totalsegments"])]
       ELSE st
  ELSE st

\* A variant of AssignNumbers that, for a bracketed pair met when a segment
\* index is stored beside the segment total 0, replaces the total only.
AssignNumbersTotalOnly(m, st) ==
  IF st.File = 0 /\ st.Segment = 0
  THEN IF m["files"] # <<>>
       THEN [st EXCEPT !.found = TRUE, !.File = Atoi(m["file"]),
                       !.TotalFiles = Atoi(m["totalfiles"])]
       ELSE IF m["segments"] # <<>>
       THEN [st EXCEPT !.found = TRUE, !.Segment = Atoi(m["segment"]),
                       !.TotalSegments = Atoi(m["totalsegments"])]
       ELSE st
  ELSE IF st.TotalFiles = 0 \/ st.TotalSegments = 0
  THEN IF m["files"] # <<>>
       THEN LET shifted == IF st.TotalFiles # 0
                           THEN [st EXCEPT !.Segment = st.File,
                                           !.TotalSegments = st.TotalFiles]
                           ELSE st
            IN IF shifted.TotalSegments = 0
               THEN [shifted EXCEPT !.found = TRUE,
                                    !.TotalSegments = Atoi(m["totalfiles"])]
               ELSE [shifted EXCEPT !.found = TRUE, !.File = Atoi(m["file"]),
                                    !.TotalFiles = Atoi(m["totalfiles"])]
       ELSE IF m["segments"] # <<>>
       THEN IF st.TotalSegments # 0
            THEN [st EXCEPT !.found = TRUE, !.File = Atoi(m["segment"]),
                            !.TotalFiles = Atoi(m["totalsegments"])]
            ELSE [st EXCEPT !.found = TRUE, !.Segment = Atoi(m["segment"]),
                            !.TotalSegments = Atoi(m["totalsegments"])]
       ELSE st
  ELSE st

\* One iteration of the loop over the matches, from the last to the first.
AssignNumbers(m, st) ==
  IF st.File = 0 /\ st.Segment = 0
  THEN IF m["files"] # <<>>
       THEN [st EXCEPT !.found = TRUE, !.File = Atoi(m["file"]),
                       !.TotalFiles = Atoi(m["totalfiles"])]
       ELSE IF m["segments"] # <<>>
       THEN [st EXCEPT !.found = TRUE, !.Segment = Atoi(m["segment"]),
                       !.TotalSegments = Atoi(m["totalsegments"])]
       ELSE st
  ELSE IF st.TotalFiles = 0 \/ st.TotalSegments = 0
  THEN IF m["files"] # <<>>
       THEN LET shifted == IF st.TotalFiles # 0
                           THEN [st EXCEPT !.Segment = st.File,
                                           !.TotalSegments = st.TotalFiles]
                           ELSE st
            IN IF shifted.TotalSegments = 0
               THEN [shifted EXCEPT !.found = TRUE, !.Segment = Atoi(m["file"]),
                                    !.TotalSegments = Atoi(m["totalfiles"])]
               ELSE [shifted EXCEPT !.found = TRUE, !.File = Atoi(m["file"]),
                                    !.TotalFiles = Atoi(m["totalfiles"])]
       ELSE IF m["segments"] # <<>>
       THEN IF st.TotalSegments # 0
            THEN [st EXCEPT !.found = TRUE, !.File = Atoi(m["segment"]),
                            !.TotalFiles = Atoi(m["totalsegments"])]
            ELSE [st EXCEPT !.found = TRUE, !.Segment = Atoi(m["segment"]),
                            !.TotalSegments = Atoi(m["totalsegments"])]
       ELSE st
  ELSE st

\* for counter := len(matches) - 1; counter >= 0; counter--
RECURSIVE NumbersLoop(_, _, _)
NumbersLoop(matches, counter, st) ==
  IF counter < 1 THEN st
  ELSE NumbersLoop(matches, counter - 1, AssignNumbers(matches[counter], st))

\* for counter := 0; counter <= len(matches)-1; counter++
RECURSIVE CombineRemainders(_, _, _)
CombineRemainders(matches, counter, rem) ==
  IF counter > Len(matches) THEN rem
  ELSE CombineRemainders(matches, counter + 1,
         TrimSpace(rem \o <<" ">> \o TrimSpace(matches[counter]["remainder"])))

\* A variant of NumbersPass that assigns the numbers of the last match only.
NumbersPassLastOnly(subj) ==
  LET st0 == [File |-> subj.File, TotalFiles |-> subj.TotalFiles, Segment |-> subj.Segment,
              TotalSegments |-> subj.TotalSegments, found |-> FALSE]
      Result(matches, st, rem) ==
        IF matches # <<>>
        THEN [subject |-> [subj EXCEPT !.File = st.File, !.TotalFiles = st.TotalFiles,
                                       !.Segment = st.Segment,
                                       !.TotalSegments = st.TotalSegments],
              foundNumbers |-> st.found,
              remainder |-> IF ~st.found /\ TrimSpace(rem) = <<>>
                            THEN subj.Subject ELSE rem]
        ELSE [subject |-> subj, foundNumbers |-> FALSE, remainder |-> subj.Subject]
      Assign(matches) ==
        Result(matches,
               IF matches = <<>> THEN st0
               ELSE AssignNumbers(matches[Len(matches)], st0),
               CombineRemainders(matches, 1, <<>>))
  IN Assign(findAllNamedMatches(numbersRE, numbersNames, subj.Subject))

\* A variant of NumbersPass that falls back to the full subject whenever the
\* combined remainder is empty, also when numbers were found.
NumbersPassAlwaysFallBack(subj) ==
  LET Result(matches, st, rem) ==
        IF matches # <<>>
        THEN [subject |-> [subj EXCEPT !.File = st.File, !.TotalFiles = st.TotalFiles,
                                       !.Segment = st.Segment,
                                       !.TotalSegments = st.TotalSegments],
              foundNumbers |-> st.found,
              remainder |-> IF TrimSpace(rem) = <<>>
                            THEN subj.Subject ELSE rem]
        ELSE [subject |-> subj, foundNumbers |-> FALSE, remainder |-> subj.Subject]
      Assign(matches) ==
        Result(matches,
               NumbersLoop(matches, Len(matches),
                           [File |-> subj.File, TotalFiles |-> subj.TotalFiles,
                            Segment |-> subj.Segment,
                            TotalSegments |-> subj.TotalSegments, found |-> FALSE]),
               CombineRemainders(matches, 1, <<>>))
  IN Assign(findAllNamedMatches(numbersRE, numbersNames, subj.Subject))

\* lines 37-103 of ParseSubject: the numbers of the subject and the remainder
NumbersPass(subj) ==
  LET Result(matches, st, rem) ==
        IF matches # <<>>
        THEN [subject |-> [subj EXCEPT !.File = st.File, !.TotalFiles = st.TotalFiles,
                                       !.Segment = st.Segment,
                                       !.TotalSegments = st.TotalSegments],
              foundNumbers |-> st.found,
              remainder |-> IF ~st.found /\ TrimSpace(rem) = <<>>
                            THEN subj.Subject ELSE rem]
        ELSE [subject |-> subj, foundNumbers |-> FALSE, remainder |-> subj.Subject]
      Assign(matches) ==
        Result(matches,
               NumbersLoop(matches, Len(matches),
                           [File |-> subj.File, TotalFiles |-> subj.TotalFiles,
                            Segment |-> subj.Segment,
                            TotalSegments |-> subj.TotalSegments, found |-> FALSE]),
               CombineRemainders(matches, 1, <<>>))
  IN Assign(findAllNamedMatches(numbersRE, numbersNames, subj.Subject))

----------------------------------------------------------------------------
(* Pass 2: defaults of the numbers and the "x of y" form. *)

\* (?i)(?:(?P<remainder1>.*?) *(?P<files>(?:\[|[<[]? *(?:file|datei)?) *
\*   (?P<file>\d+) *(?:of|von) *(?P<totalfiles>\d+) *(?:\]|[>\]])?)(?P<remainder2>.*$))
ofRE ==
  Cat(<< Grp("remainder1", LazyStar(Dot)), Star(Sp),
    Grp("files", Cat(<<
      Alt(<< Ch("["),
             Cat(<< Opt(CharSet({"<", "["})), Star(Sp),
                    Opt(Alt(<<LitI(<<"f", "i", "l", "e">>),
                              LitI(<<"d", "a", "t", "e", "i">>)>>)) >>) >>),
      Star(Sp), Grp("file", Plus(D)), Star(Sp),
      Alt(<<LitI(<<"o", "f">>), LitI(<<"v", "o", "n">>)>>), Star(Sp),
      Grp("totalfiles", Plus(D)), Star(Sp),
      Opt(Alt(<<Ch("]"), CharSet({">", "]"})>>)) >>)),
    Grp("remainder2", Cat(<<Star(Dot), Eol>>)) >>)

ofNames == {"remainder1", "files", "file", "totalfiles", "remainder2"}

\* A variant of DefaultsPass that leaves the file numbers without default.
DefaultsPassNoFileDefault(subj, rem) ==
  LET s1 == IF subj.TotalSegments = 0
            THEN [subj EXCEPT !.Segment = 1, !.TotalSegments = 1]
            ELSE subj
      OfFallback(matches) ==
        IF matches # <<>> /\ matches[1]["files"] # <<>>
        THEN [subject |-> [s1 EXCEPT !.File = Atoi(matches[1]["file"]),
                                     !.TotalFiles = Atoi(matches[1]["totalfiles"])],
              remainder |-> TrimSpace(TrimSpace(matches[1]["remainder1"]) \o <<" ">>
                                      \o TrimSpace(matches[1]["remainder2"]))]
        ELSE [subject |-> s1, remainder |-> rem]
  IN IF s1.TotalFiles = 0
     THEN OfFallback(findAllNamedMatches(ofRE, ofNames, rem))
     ELSE [subject |-> s1, remainder |-> rem]

\* A variant of DefaultsPass that applies the segment default when the
\* segment index is 0, not when the segment total is 0.
DefaultsPassOnIndex(subj, rem) ==
  LET s1 == IF subj.Segment = 0
            THEN [subj EXCEPT !.Segment = 1, !.TotalSegments = 1]
            ELSE subj
      OfFallback(matches) ==
        IF matches # <<>> /\ matches[1]["files"] # <<>>
        THEN [subject |-> [s1 EXCEPT !.File = Atoi(matches[1]["file"]),
                                     !.TotalFiles = Atoi(matches[1]["totalfiles"])],
              remainder |-> TrimSpace(TrimSpace(matches[1]["remainder1"]) \o <<" ">>
                                      \o TrimSpace(matches[1]["remainder2"]))]
        ELSE [subject |-> [s1 EXCEPT !.File = 1, !.TotalFiles = 1], remainder |-> rem]
  IN IF s1.TotalFiles = 0
     THEN OfFallback(findAllNamedMatches(ofRE, ofNames, rem))
     ELSE [subject |-> s1, remainder |-> rem]

\* lines 104-124 of ParseSubject
DefaultsPass(subj, rem) ==
  LET s1 == IF subj.TotalSegments = 0
            THEN [subj EXCEPT !.Segment = 1, !.TotalSegments = 1]
            ELSE subj
      OfFallback(matches) ==
        IF matches # <<>> /\ matches[1]["files"] # <<>>
        THEN [subject |-> [s1 EXCEPT !.File = Atoi(matches[1]["file"]),
                                     !.TotalFiles = Atoi(matches[1]["totalfiles"])],
              remainder |-> TrimSpace(TrimSpace(matches[1]["remainder1"]) \o <<" ">>
                                      \o TrimSpace(matches[1]["remainder2"]))]
        ELSE [subject |-> [s1 EXCEPT !.File = 1, !.TotalFiles = 1], remainder |-> rem]
  IN IF s1.TotalFiles = 0
     THEN OfFallback(findAllNamedMatches(ofRE, ofNames, rem))
     ELSE [subject |-> s1, remainder |-> rem]

----------------------------------------------------------------------------
(* Pass 3: header and file name. *)

NotSQD == Not({" ", "\"", "."})

\* (?:vol\d+\+\d+\.par2?|part\d+\.[^ "\.]*|[^ "\.]*\.\d+|<last>)
ExtShape(last) ==
  Alt(<< Cat(<<LitI(<<"v", "o", "l">>), Plus(D), Ch("+"), Plus(D), Ch("."),
               LitI(<<"p", "a", "r">>), Opt(Ch("2"))>>),
         Cat(<<LitI(<<"p", "a", "r", "t">>), Plus(D), Ch("."), Star(NotSQD)>>),
         Cat(<<Star(NotSQD), Ch("."), Plus(D)>>),
         last >>)

\* (?:7z\.)?
SevenZ == Opt(Cat(<<LitI(<<"7", "z">>), Ch(".")>>))

\* "+(?P<filename>(?P<basefilename>.*?)(?:\.(?P<extension>(?:7z\.)?(?:...)))?)"+
QuotedFilename ==
  Cat(<< Plus(Quote),
         Grp("filename", Cat(<<
           Grp("basefilename", LazyStar(Dot)),
           Opt(Cat(<<Ch("."), Grp("extension", Cat(<<SevenZ, ExtShape(Star(NotSQD))>>))>>)) >>)),
         Plus(Quote) >>)

\* A variant of quotedRE whose header is greedy, which finds the last quoted span.
quotedREGreedyHeader ==
  Cat(<< Bol, Opt(Grp("header", Star(Dot))), Star(CharSet({"-", " "})), QuotedFilename >>)

\* (?i)^(?P<header>.*?)?[- ]*"+(?P<filename>...)"+
quotedRE ==
  Cat(<< Bol, Opt(Grp("header", LazyStar(Dot))), Star(CharSet({"-", " "})), QuotedFilename >>)

quotedNames == {"header", "filename", "basefilename", "extension"}

\* (?i)^(?P<filename>(?P<basefilename>.*?)\.(?P<extension>(?:...))(?:[" ]|$))
unquotedRE ==
  Cat(<< Bol,
         Grp("filename", Cat(<<
           Grp("basefilename", LazyStar(Dot)), Ch("."),
           Grp("extension", ExtShape(Star(NotSQD))),
           Alt(<<CharSet({"\"", " "}), Eol>>) >>)) >>)

unquotedNames == {"filename", "basefilename", "extension"}

\* the cutset " -"
SpHy == {" ", "-"}

\* A variant of SplitPass that takes the remainder as the file name whatever
\* the number of files.
SplitPassAnyTotal(subj, rem) ==
  LET Unquoted(mu) ==
        IF mu # <<>>
        THEN [subj EXCEPT !.Filename = Trim(mu[1]["filename"], SpHy),
                          !.Basefilename = Trim(mu[1]["basefilename"], SpHy)]
        ELSE [subj EXCEPT !.Filename = Trim(rem, SpHy), !.Basefilename = Trim(rem, SpHy)]
      InQuotes(mq) ==
        IF mq # <<>>
        THEN [subj EXCEPT !.Header = Trim(mq[1]["header"], SpHy),
                          !.Filename = Trim(mq[1]["filename"], SpHy),
                          !.Basefilename = Trim(mq[1]["basefilename"], SpHy)]
        ELSE Unquoted(findAllNamedMatches(unquotedRE, unquotedNames, rem))
  IN InQuotes(findAllNamedMatches(quotedRE, quotedNames, rem))

\* lines 126-150 of ParseSubject
SplitPass(subj, rem) ==
  LET Unquoted(mu) ==
        IF mu # <<>>
        THEN [subj EXCEPT !.Filename = Trim(mu[1]["filename"], SpHy),
                          !.Basefilename = Trim(mu[1]["basefilename"], SpHy)]
        ELSE IF subj.TotalFiles = 1
        THEN [subj EXCEPT !.Filename = Trim(rem, SpHy), !.Basefilename = Trim(rem, SpHy)]
        ELSE subj
      InQuotes(mq) ==
        IF mq # <<>>
        THEN [subj EXCEPT !.Header = Trim(mq[1]["header"], SpHy),
                          !.Filename = Trim(mq[1]["filename"], SpHy),
                          !.Basefilename = Trim(mq[1]["basefilename"], SpHy)]
        ELSE Unquoted(findAllNamedMatches(unquotedRE, unquotedNames, rem))
  IN InQuotes(findAllNamedMatches(quotedRE, quotedNames, rem))

----------------------------------------------------------------------------
(* Pass 4: two quoted strings, a release name and the file name. *)

\* "([^\"]+)"
quoteRE == Cat(<<Quote, Grp("1", Plus(Not({"\""}))), Quote>>)

\* the first submatch of every match of quoteRE: quoted[i][1]
Quoted(rem) ==
  LET Firsts(ms) == [i \in 1..Len(ms) |-> ms[i]["1"]]
  IN Firsts(findAllNamedMatches(quoteRE, {"1"}, rem))

\* (?i)^(?P<basefilename>.*?)\.(?:7z\.)?(?:vol\d+\+\d+\.par2?|part\d+\.[^ "\.]*|
\*   [^ "\.]*\.\d+|[^ "\.]*?)$
fileWithExtRE ==
  Cat(<< Bol, Grp("basefilename", LazyStar(Dot)), Ch("."), SevenZ,
         ExtShape(LazyStar(NotSQD)), Eol >>)

Max(S) == CHOOSE m \in S : \A n \in S : n <= m

Min(S) == CHOOSE x \in S : \A y \in S : x <= y

\* A variant of DualQuotePass that also runs when the file name has an
\* extension.
DualQuotePassUnguarded(subj, rem) ==
  LET Pick(quoted) ==
        LET m(i) == FindStringSubmatch(fileWithExtRE, {"basefilename"},
                                       TrimSpace(quoted[i]))
            Promote(hits) ==
              IF hits # {}
              THEN LET i == Min(hits)
                   IN [subj EXCEPT !.Filename = TrimSpace(quoted[i]),
                                   !.Basefilename = Trim(m(i).caps["basefilename"], SpHy),
                                   !.Header = IF subj.Header = <<>>
                                              THEN Trim(quoted[1], SpHy)
                                              ELSE subj.Header]
              ELSE subj
        IN IF Len(quoted) > 1 THEN Promote({i \in 2..Len(quoted) : m(i).ok}) ELSE subj
  IN IF subj.Filename # <<>>
     THEN Pick(Quoted(rem))
     ELSE subj

\* lines 152-184 of ParseSubject
DualQuotePass(subj, rem) ==
  LET Pick(quoted) ==
        LET m(i) == FindStringSubmatch(fileWithExtRE, {"basefilename"},
                                       TrimSpace(quoted[i]))
            Promote(hits) ==
              IF hits # {}
              THEN LET i == Min(hits)
                   IN [subj EXCEPT !.Filename = TrimSpace(quoted[i]),
                                   !.Basefilename = Trim(m(i).caps["basefilename"], SpHy),
                                   !.Header = IF subj.Header = <<>>
                                              THEN Trim(quoted[1], SpHy)
                                              ELSE subj.Header]
              ELSE subj
        IN IF Len(quoted) > 1 THEN Promote({i \in 2..Len(quoted) : m(i).ok}) ELSE subj
  IN IF subj.Filename # <<>> /\ subj.Filename = subj.Basefilename
     THEN Pick(Quoted(rem))
     ELSE subj

----------------------------------------------------------------------------
(* Pass 5: is the extension a real file extension? *)

known ==
  { <<"r", "a", "r">>, <<"r", "0", "0">>, <<"r", "0", "1">>, <<"r", "0", "2">>,
    <<"p", "a", "r", "2">>, <<"n", "f", "o">>, <<"s", "f", "v">>, <<"z", "i", "p">>,
    <<"7", "z">>, <<"m", "p", "4">>, <<"m", "k", "v">>, <<"a", "v", "i">>,
    <<"m", "o", "v">>, <<"m", "p", "3">>, <<"f", "l", "a", "c">>, <<"m", "4", "a">>,
    <<"j", "p", "g">>, <<"j", "p", "e", "g">>, <<"p", "n", "g">>, <<"g", "i", "f">>,
    <<"p", "d", "f">>, <<"t", "x", "t">>, <<"r", "0", "3">>, <<"r", "0", "4">>,
    <<"r", "0", "5">> }

\* (?i)r\d{2}$
dynamicArchiveRE == Cat(<<ChI("r"), D, D, Eol>>)

\* vol\d+\+\d+\.par2|par2|part\d+\.rar|r\d{2}|rar|nfo|sfv|zip|7z|mp4|mkv|avi|mov|
\*   mp3|flac|m4a|jpg|jpeg|png|gif|pdf|txt
RealExt ==
  Alt(<< Cat(<<LitI(<<"v", "o", "l">>), Plus(D), Ch("+"), Plus(D), Ch("."),
               LitI(<<"p", "a", "r", "2">>)>>),
         LitI(<<"p", "a", "r", "2">>),
         Cat(<<LitI(<<"p", "a", "r", "t">>), Plus(D), Ch("."), LitI(<<"r", "a", "r">>)>>),
         Cat(<<ChI("r"), D, D>>),
         LitI(<<"r", "a", "r">>), LitI(<<"n", "f", "o">>), LitI(<<"s", "f", "v">>),
         LitI(<<"z", "i", "p">>), LitI(<<"7", "z">>), LitI(<<"m", "p", "4">>),
         LitI(<<"m", "k", "v">>), LitI(<<"a", "v", "i">>), LitI(<<"m", "o", "v">>),
         LitI(<<"m", "p", "3">>), LitI(<<"f", "l", "a", "c">>), LitI(<<"m", "4", "a">>),
         LitI(<<"j", "p", "g">>), LitI(<<"j", "p", "e", "g">>), LitI(<<"p", "n", "g">>),
         LitI(<<"g", "i", "f">>), LitI(<<"p", "d", "f">>), LitI(<<"t", "x", "t">>) >>)

\* (?i)^(?P<base>.+?)\.(?P<ext>(?:...))$
candidateRE ==
  Cat(<< Bol, Grp("base", LazyPlus(Dot)), Ch("."), Grp("ext", RealExt), Eol >>)

\* the extension of the current file name, lower-cased (lines 192-197)
CurExt(cur) ==
  LET idx == LastIndex(cur, ".")
  IN IF idx # 0 THEN ToLower(SubStr(cur, idx + 1, Len(cur))) ELSE <<>>

\* A variant of RefinePass with the header rule of the dual-quote pass: the
\* first quoted span replaces an empty header only.
RefinePassEmptyHeaderOnly(subj, rem) ==
  LET isDynamicArchive(curExt) == MatchString(dynamicArchiveRE, curExt)
      Pick(quoted) ==
        LET m(i) == FindStringSubmatch(candidateRE, {"base", "ext"}, TrimSpace(quoted[i]))
            Promote(hits) ==
              IF hits # {}
              THEN LET i == Min(hits)
                   IN [subj EXCEPT !.Header = IF subj.Header = <<>>
                                              THEN Trim(quoted[1], SpHy)
                                              ELSE subj.Header,
                                   !.Filename = TrimSpace(quoted[i]),
                                   !.Basefilename = Trim(m(i).caps["base"], SpHy)]
              ELSE subj
        IN IF /\ Len(quoted) > 1
              /\ CurExt(subj.Filename) \notin known
              /\ ~isDynamicArchive(CurExt(subj.Filename))
           THEN Promote({i \in 2..Len(quoted) : m(i).ok})
           ELSE subj
  IN IF subj.Filename # <<>> THEN Pick(Quoted(rem)) ELSE subj

\* lines 186-218 of ParseSubject
RefinePass(subj, rem) ==
  LET isDynamicArchive(curExt) == MatchString(dynamicArchiveRE, curExt)
      Pick(quoted) ==
        LET m(i) == FindStringSubmatch(candidateRE, {"base", "ext"}, TrimSpace(quoted[i]))
            Promote(hits) ==
              IF hits # {}
              THEN LET i == Min(hits)
                   IN [subj EXCEPT !.Header = IF \/ subj.Header = <<>>
                                                 \/ subj.Header = subj.Basefilename
                                                 \/ EqualFold(subj.Header, subj.Filename)
                                              THEN Trim(quoted[1], SpHy)
                                              ELSE subj.Header,
                                   !.Filename = TrimSpace(quoted[i]),
                                   !.Basefilename = Trim(m(i).caps["base"], SpHy)]
              ELSE subj
        IN IF /\ Len(quoted) > 1
              /\ CurExt(subj.Filename) \notin known
              /\ ~isDynamicArchive(CurExt(subj.Filename))
           THEN Promote({i \in 2..Len(quoted) : m(i).ok})
           ELSE subj
  IN IF subj.Filename # <<>> THEN Pick(Quoted(rem)) ELSE subj

----------------------------------------------------------------------------
(* Pass 6 and 7: header from the base file name; leading bracket pairs. *)

\* A variant of BackfillPass that leaves the header as it is.
BackfillPassNever(subj) == subj

\* lines 220-223 of ParseSubject
BackfillPass(subj) ==
  IF subj.Header = <<>> /\ subj.Basefilename # <<>>
  THEN [subj EXCEPT !.Header = subj.Basefilename]
  ELSE subj

\* ^(?: *(?:"?\[|[<[]?)\d+ */ *\d+ *(?:\]"?|[>\]])?)+ *(?P<tail>.*)$
leadBrackets ==
  Cat(<< Bol,
         Plus(Cat(<< Star(Sp),
                     Alt(<<Cat(<<Opt(Quote), Ch("[")>>), Opt(CharSet({"<", "["}))>>),
                     Plus(D), Star(Sp), Ch("/"), Star(Sp), Plus(D), Star(Sp),
                     Opt(Alt(<<Cat(<<Ch("]"), Opt(Quote)>>), CharSet({">", "]"})>>)) >>)),
         Star(Sp), Grp("tail", Star(Dot)), Eol >>)

\* lines 225-256 of ParseSubject
FallbackPass(subj) ==
  LET InTail(qm) ==
        IF qm.ok
        THEN [subj EXCEPT !.Filename = Trim(qm.caps["filename"], SpHy),
                          !.Basefilename = Trim(qm.caps["basefilename"], SpHy),
                          !.Header = IF subj.Header = <<>>
                                     THEN Trim(qm.caps["basefilename"], SpHy)
                                     ELSE subj.Header]
        ELSE subj
      Lead(m) ==
        IF m.ok
        THEN InTail(FindStringSubmatch(QuotedFilename, quotedNames,
                                       TrimSpace(m.caps["tail"])))
        ELSE subj
  IN IF subj.Filename = <<>>
     THEN Lead(FindStringSubmatch(leadBrackets, {"tail"}, subj.Subject))
     ELSE subj

------------------------------------------------------------\* the zero value of the Subject structure
ZeroSubject ==
  [Subject |-> <<>>, Header |-> <<>>, Filename |-> <<>>, Basefilename |-> <<>>,
   File |-> 0, TotalFiles |-> 0, Segment |-> 0, TotalSegments |-> 0]

\* ParseSubject as a function of its argument: the passes in their order
ParseSubject(str) ==
  LET Names(d) ==
        FallbackPass(BackfillPass(
          RefinePass(DualQuotePass(SplitPass(d.subject, d.remainder), d.remainder),
                     d.remainder)))
      Files(n) == Names(DefaultsPass(n.subject, n.remainder))
  IN [subject |-> Files(NumbersPass([ZeroSubject EXCEPT !.Subject = TrimSpace(str)])),
      err |-> "nil"]

----------------
(* Input subject lines: concatenations of tokens. *)

tBr12 == <<"[", "1", "/", "2", "]">>
tBr034 == <<" ", "[", "0", "3", "/", "4", "]">>
tBr05 == <<"[", "0", "/", "5", "]">>
tBr50 == <<"[", "5", "/", "0", "]">>
tPa67 == <<"(", "6", "/", "7", ")">>
tPa89 == <<"(", "8", "/", "9", ")">>
tPa40 == <<"(", "4", "/", "0", ")">>
tOf23 == <<"2", " ", "o", "f", " ", "3">>
tX == <<"x">>
tSp == <<" ">>
tDash == <<" ", "-", " ">>
tA == <<"a">>
tAB == <<"A", ".", "B">>
tREL == <<"R", "E", "L">>
tQRel == <<"\"", "R", "e", "l", "\"">>
tQab == <<"\"", "a", ".", "b", "\"">>
tQrar == <<"\"", "c", ".", "r", "a", "r", "\"">>
tQr00 == <<"\"", "d", ".", "r", "0", "0", "\"">>
tMkv == <<"e", ".", "m", "k", "v">>
tQ == <<"\"">>
tDot == <<".">>

NumTokens == {tBr12, tBr034, tBr05, tBr50, tPa67, tPa89, tPa40, tOf23, tX}
QuoteTokens == {tQRel, tQab, tQrar, tQr00, tREL, tA, tAB, tSp, tBr12}
NameTokens == {tAB, tMkv, tSp, tA, tDash, tPa40, tX}
SplitTokens == {tA, tAB, tDot, tQ, tSp, tDash, tBr12, tPa67}
Tokens == NumTokens \cup QuoteTokens \cup {tMkv, tDash}

RECURSIVE Flatten(_)
Flatten(q) == IF q = <<>> THEN <<>> ELSE Head(q) \o Flatten(Tail(q))

Inputs(T, n) == {Flatten(q) : q \in UNION {[1..k -> T] : k \in 0..n}}

----------------------------------------------------------------------------
(* ParseSubject as a state machine: one action per pass. *)

\* no document: the decoder's error result
NoDocument == [ok |-> FALSE, Files |-> <<>>]

\* the nil *Nzb
NilNzb == [Files |-> <<>>, TotalFiles |-> 0, Segments |-> 0, TotalSegments |-> 0, Bytes |-> 0]

InitWith(I) ==
  /\ s \in I
  /\ pc = "call"
  /\ subject = ZeroSubject
  /\ remainder = <<>>
  /\ foundNumbers = FALSE
  /\ err = "none"
  /\ xnzb = NoDocument
  /\ opts = [RemoveDuplicates |-> TRUE]
  /\ nzb = NilNzb
  /\ npc = "idle"
  /\ nerr = "none"

Init == InitWith(Inputs(Tokens, MaxTokens))
InitNum == InitWith(Inputs(NumTokens, MaxNumTokens))
InitQuote == InitWith(Inputs(QuoteTokens, MaxQuoteTokens))
InitName == InitWith(Inputs(NameTokens, MaxNameTokens))
InitSplit == InitWith(Inputs(SplitTokens, MaxSplitTokens))

\* subject := Subject{Subject: strings.TrimSpace(s)}
NewSubject ==
  /\ pc = "call"
  /\ subject' = [ZeroSubject EXCEPT !.Subject = TrimSpace(s)]
  /\ pc' = "numbers"
  /\ UNCHANGED <<s, remainder, foundNumbers, err>>
  /\ UNCHANGED nzbVars

Numbers ==
  /\ pc = "numbers"
  /\ \E r \in {NumbersPass(subject)} :
        /\ subject' = r.subject
        /\ foundNumbers' = r.foundNumbers
        /\ remainder' = r.remainder
  /\ pc' = "defaults"
  /\ UNCHANGED <<s, err>>
  /\ UNCHANGED nzbVars

Defaults ==
  /\ pc = "defaults"
  /\ \E r \in {DefaultsPass(subject, remainder)} :
        /\ subject' = r.subject
        /\ remainder' = r.remainder
  /\ pc' = "split"
  /\ UNCHANGED <<s, foundNumbers, err>>
  /\ UNCHANGED nzbVars

Split ==
  /\ pc = "split"
  /\ subject' = SplitPass(subject, remainder)
  /\ pc' = "dualquote"
  /\ UNCHANGED <<s, remainder, foundNumbers, err>>
  /\ UNCHANGED nzbVars

DualQuote ==
  /\ pc = "dualquote"
  /\ subject' = DualQuotePass(subject, remainder)
  /\ pc' = "refine"
  /\ UNCHANGED <<s, remainder, foundNumbers, err>>
  /\ UNCHANGED nzbVars

Refine ==
  /\ pc = "refine"
  /\ subject' = RefinePass(subject, remainder)
  /\ pc' = "backfill"
  /\ UNCHANGED <<s, remainder, foundNumbers, err>>
  /\ UNCHANGED nzbVars

Backfill ==
  /\ pc = "backfill"
  /\ subject' = BackfillPass(subject)
  /\ pc' = "fallback"
  /\ UNCHANGED <<s, remainder, foundNumbers, err>>
  /\ UNCHANGED nzbVars

Fallback ==
  /\ pc = "fallback"
  /\ subject' = FallbackPass(subject)
  /\ pc' = "return"
  /\ UNCHANGED <<s, remainder, foundNumbers, err>>
  /\ UNCHANGED nzbVars

\* A variant of Return that reports an error for a subject without file name.
ReturnError ==
  /\ pc = "return"
  /\ err' = IF subject.Filename = <<>> THEN "no filename" ELSE "nil"
  /\ pc' = "done"
  /\ UNCHANGED <<s, subject, remainder, foundNumbers>>
  /\ UNCHANGED nzbVars

\* return subject, nil
Return ==
  /\ pc = "return"
  /\ err' = "nil"
  /\ pc' = "done"
  /\ UNCHANGED <<s, subject, remainder, foundNumbers>>
  /\ UNCHANGED nzbVars

Next ==
  \/ NewSubject
  \/ Numbers
  \/ Defaults
  \/ Split
  \/ DualQuote
  \/ Refine
  \/ Backfill
  \/ Fallback
  \/ Return

Spec == Init /\ [][Next]_vars
SpecNum == InitNum /\ [][Next]_vars
SpecQuote == InitQuote /\ [][Next]_vars
SpecName == InitName /\ [][Next]_vars
SpecSplit == InitSplit /\ [][Next]_vars

\* the order of the passes in the body of ParseSubject
NextPass ==
  [call |-> "numbers", numbers |-> "defaults", defaults |-> "split",
   split |-> "dualquote", dualquote |-> "refine", refine |-> "backfill",
   backfill |-> "fallback", fallback |-> "return", return |-> "done"]

\* control reaches the following pass
Advance == pc # "done" /\ pc' = NextPass[pc]

\* ParseSubject is straight-line code over bounded loops and linear-time
\* matching: a call that has started runs to its return.  Every step of
\* Next is a step of Advance and Next is enabled until the return, so that
\* weak fairness of Advance is weak fairness of Next.
FairSpec == Init /\ [][Next]_vars /\ WF_pc(Advance)

----------------------------------------------------------------------------------------------------------------------------------------
(* nzbparser.go: MakeUnique, ScanNzbFile and ParseWithOptions. *)

\* html.UnescapeString, for the entities that occur in the model's IDs
UnescapeString(id) ==
  IF id = "&amp;" THEN "&" ELSE IF id = "&lt;" THEN "<" ELSE id

\* lines 228-239 of MakeUnique; fileKeys is the key set of the helper map
RECURSIVE UniqueFiles(_, _, _)
UniqueFiles(files, fileKeys, uniqueFiles) ==
  IF files = <<>> THEN uniqueFiles
  ELSE IF Head(files).Subject \in fileKeys
  THEN UniqueFiles(Tail(files), fileKeys, uniqueFiles)
  ELSE UniqueFiles(Tail(files), fileKeys \cup {Head(files).Subject},
                   Append(uniqueFiles, Head(files)))

\* A variant of UniqueSegments that keeps the last segment of each ID, not the first.
RECURSIVE UniqueSegmentsKeepLast(_, _, _)
UniqueSegmentsKeepLast(segments, segmentKeys, uniqueSegments) ==
  IF segments = <<>> THEN uniqueSegments
  ELSE IF \A i \in 2..Len(segments) : segments[i].ID # Head(segments).ID
  THEN UniqueSegmentsKeepLast(Tail(segments), segmentKeys \cup {Head(segments).ID},
                              Append(uniqueSegments, Head(segments)))
  ELSE UniqueSegmentsKeepLast(Tail(segments), segmentKeys, uniqueSegments)

\* lines 245-254 of MakeUnique
RECURSIVE UniqueSegments(_, _, _)
UniqueSegments(segments, segmentKeys, uniqueSegments) ==
  IF segments = <<>> THEN uniqueSegments
  ELSE IF Head(segments).ID \notin segmentKeys
  THEN UniqueSegments(Tail(segments), segmentKeys \cup {Head(segments).ID},
                      Append(uniqueSegments, Head(segments)))
  ELSE UniqueSegments(Tail(segments), segmentKeys, uniqueSegments)

MakeUnique(n) ==
  LET Segs(files) ==
        [i \in 1..Len(files) |->
           [files[i] EXCEPT !.Segments = UniqueSegments(files[i].Segments, {}, <<>>)]]
  IN [n EXCEPT !.Files = Segs(UniqueFiles(n.Files, {}, <<>>))]

\* A variant of ScanSegments that takes the Number of every segment as the
\* total, so that the total is the Number of the last segment.
RECURSIVE ScanSegmentsLast(_, _, _)
ScanSegmentsLast(segments, i, st) ==
  IF i > Len(segments) THEN st
  ELSE ScanSegmentsLast(segments, i + 1,
         [totalFileSegments |-> segments[i].Number,
          totalFileBytes |-> st.totalFileBytes + segments[i].Bytes,
          Segments |-> [st.Segments EXCEPT ![i].ID = UnescapeString(segments[i].ID)]])

\* lines 198-206 of ScanNzbFile: the loop over the segments of a file
RECURSIVE ScanSegments(_, _, _)
ScanSegments(segments, i, st) ==
  IF i > Len(segments) THEN st
  ELSE ScanSegments(segments, i + 1,
         [totalFileSegments |-> IF segments[i].Number > st.totalFileSegments
                                THEN segments[i].Number ELSE st.totalFileSegments,
          totalFileBytes |-> st.totalFileBytes + segments[i].Bytes,
          Segments |-> [st.Segments EXCEPT ![i].ID = UnescapeString(segments[i].ID)]])

\* the subjects of the file entries of the model's documents
tBr110 == <<"[", "1", "/", "1", "0", "]">>
tBr21 == <<"[", "2", "/", "1", "]">>
NzbSubjects == {tBr110 \o tSp \o tQrar, tBr21 \o tX}

\* subjects with and without a segment total, for the documents of SpecScan
tPa13 == <<"(", "1", "/", "3", ")">>
ScanSubjects == {tX \o tPa13, tBr21 \o tX}

\* line 182 of ScanNzbFile: ParseSubject of each of these subjects, computed once
ParsedSubject == [str \in NzbSubjects \cup ScanSubjects |-> ParseSubject(str)]

\* A variant of ScanFile that adds the segments' bytes to the file's previous Bytes.
ScanFileAdding(file, st) ==
  LET Sum(f, totalFiles, sg) ==
        [segments |-> st.segments + Len(file.Segments),
         totalSegments |-> st.totalSegments + sg.totalFileSegments,
         totalBytes |-> st.totalBytes + sg.totalFileBytes,
         totalFiles |-> totalFiles,
         Files |-> Append(st.Files,
                          [f EXCEPT !.Segments = sg.Segments,
                                    !.TotalSegments = sg.totalFileSegments,
                                    !.Bytes = file.Bytes + sg.totalFileBytes])]
      Segs(f, totalFiles, totalFileSegments) ==
        Sum(f, totalFiles,
            ScanSegments(file.Segments, 1,
                         [totalFileSegments |-> totalFileSegments,
                          totalFileBytes |-> 0, Segments |-> file.Segments]))
      Parsed(p) ==
        IF p.err = "nil"
        THEN Segs([file EXCEPT !.Number = p.subject.File,
                               !.Filename = IF p.subject.Filename # <<>>
                                            THEN p.subject.Filename
                                            ELSE p.subject.Header],
                  IF p.subject.TotalFiles > st.totalFiles
                  THEN p.subject.TotalFiles ELSE st.totalFiles,
                  p.subject.TotalSegments)
        ELSE Segs(file, st.totalFiles, 0)
  IN Parsed(ParsedSubject[file.Subject])

\* lines 178-211 of ScanNzbFile: the body of the loop over the files
ScanFile(file, st) ==
  LET Sum(f, totalFiles, sg) ==
        [segments |-> st.segments + Len(file.Segments),
         totalSegments |-> st.totalSegments + sg.totalFileSegments,
         totalBytes |-> st.totalBytes + sg.totalFileBytes,
         totalFiles |-> totalFiles,
         Files |-> Append(st.Files,
                          [f EXCEPT !.Segments = sg.Segments,
                                    !.TotalSegments = sg.totalFileSegments,
                                    !.Bytes = sg.totalFileBytes])]
      Segs(f, totalFiles, totalFileSegments) ==
        Sum(f, totalFiles,
            ScanSegments(file.Segments, 1,
                         [totalFileSegments |-> totalFileSegments,
                          totalFileBytes |-> 0, Segments |-> file.Segments]))
      Parsed(p) ==
        IF p.err = "nil"
        THEN Segs([file EXCEPT !.Number = p.subject.File,
                               !.Filename = IF p.subject.Filename # <<>>
                                            THEN p.subject.Filename
                                            ELSE p.subject.Header],
                  IF p.subject.TotalFiles > st.totalFiles
                  THEN p.subject.TotalFiles ELSE st.totalFiles,
                  p.subject.TotalSegments)
        ELSE Segs(file, st.totalFiles, 0)
  IN Parsed(ParsedSubject[file.Subject])

\* lines 177-212 of ScanNzbFile
RECURSIVE ScanFiles(_, _)
ScanFiles(files, st) ==
  IF files = <<>> THEN st ELSE ScanFiles(Tail(files), ScanFile(Head(files), st))

\* A variant of ScanNzbFile that always reports the number of file entries.
ScanNzbFileCountOnly(n) ==
  LET Totals(st) ==
        [n EXCEPT !.Files = st.Files,
                  !.TotalFiles = Len(n.Files),
                  !.Segments = st.segments,
                  !.TotalSegments = st.totalSegments,
                  !.Bytes = st.totalBytes]
  IN Totals(ScanFiles(n.Files, [segments |-> 0, totalSegments |-> 0, totalBytes |-> 0,
                                totalFiles |-> 0, Files |-> <<>>]))

\* lines 168-223 of ScanNzbFile
ScanNzbFile(n) ==
  LET Totals(st) ==
        [n EXCEPT !.Files = st.Files,
                  !.TotalFiles = IF st.totalFiles < Len(n.Files)
                                 THEN Len(n.Files) ELSE st.totalFiles,
                  !.Segments = st.segments,
                  !.TotalSegments = st.totalSegments,
                  !.Bytes = st.totalBytes]
  IN Totals(ScanFiles(n.Files, [segments |-> 0, totalSegments |-> 0, totalBytes |-> 0,
                                totalFiles |-> 0, Files |-> <<>>]))

\* NzbFiles.Less and NzbSegments.Less
Less(x, i, j) == x[i].Number < x[j].Number

\* the orders of n elements
Orders(n) == {p \in [1..n -> 1..n] : \A i, j \in 1..n : i # j => p[i] # p[j]}

\* A variant of Sort that leaves the elements where they are.
SortNothing(x) == {x}

\* sort.Sort(x): the elements of x in an order of Less; sort.Sort is not
\* stable, so that elements Less does not tell apart come in any order
Sort(x) ==
  {q \in {[i \in 1..Len(x) |-> x[p[i]]] : p \in Orders(Len(x))} :
     \A i \in 1..(Len(x) - 1) : ~Less(q, i + 1, i)}

\* lines 125-127 of ParseWithOptions: the outcomes of sorting every file's segments
RECURSIVE SortSegmentsOf(_)
SortSegmentsOf(files) ==
  IF files = <<>> THEN {<<>>}
  ELSE {<<[Head(files) EXCEPT !.Segments = q]>> \o r :
          q \in Sort(Head(files).Segments), r \in SortSegmentsOf(Tail(files))}

\* the segment entries of the documents of the model
NzbSegs ==
  {[ID |-> "a", Number |-> 2, Bytes |-> 1],
   [ID |-> "a", Number |-> 3, Bytes |-> 2],
   [ID |-> "&amp;", Number |-> 1, Bytes |-> 4]}

Seqs(S, n) == UNION {[1..k -> S] : k \in 0..n}

\* a decoded <file> element: the attributes and children of the XML, and
\* the zero value in the fields that are not decoded (xml:"-")
NzbFileEntries ==
  {[Subject |-> sub, Segments |-> segs, Bytes |-> 16,
    Number |-> 0, Filename |-> <<>>, TotalSegments |-> 0] :
     sub \in NzbSubjects, segs \in Seqs(NzbSegs, MaxSegs)}

InitNzb ==
  /\ xnzb \in {NoDocument} \cup {[ok |-> TRUE, Files |-> f] : f \in Seqs(NzbFileEntries, MaxFiles)}
  /\ opts \in {[RemoveDuplicates |-> b] : b \in BOOLEAN}
  /\ nzb = NilNzb
  /\ npc = "decode"
  /\ nerr = "none"
  /\ s = <<>>
  /\ pc = "idle"
  /\ subject = ZeroSubject
  /\ remainder = <<>>
  /\ foundNumbers = FALSE
  /\ err = "none"

\* segment entries with the Numbers 0, 1 and 3 and different IDs
ScanSegs ==
  {[ID |-> "a", Number |-> 0, Bytes |-> 1],
   [ID |-> "b", Number |-> 1, Bytes |-> 2],
   [ID |-> "c", Number |-> 3, Bytes |-> 4]}

ScanFileEntries ==
  {[Subject |-> sub, Segments |-> segs, Bytes |-> 16,
    Number |-> 0, Filename |-> <<>>, TotalSegments |-> 0] :
     sub \in ScanSubjects, segs \in Seqs(ScanSegs, MaxSegs)}

InitScan ==
  /\ xnzb \in {NoDocument} \cup {[ok |-> TRUE, Files |-> f] : f \in Seqs(ScanFileEntries, MaxFiles)}
  /\ opts \in {[RemoveDuplicates |-> b] : b \in BOOLEAN}
  /\ nzb = NilNzb
  /\ npc = "decode"
  /\ nerr = "none"
  /\ s = <<>>
  /\ pc = "idle"
  /\ subject = ZeroSubject
  /\ remainder = <<>>
  /\ foundNumbers = FALSE
  /\ err = "none"

subjectVars == <<s, pc, subject, remainder, foundNumbers, err>>

\* lines 97-99 of ParseWithOptions: the document does not decode
DecodeError ==
  /\ npc = "decode"
  /\ ~xnzb.ok
  /\ nerr' = "unable to parse NZB file"
  /\ npc' = "done"
  /\ UNCHANGED <<xnzb, opts, nzb>>
  /\ UNCHANGED subjectVars

\* lines 97-112 of ParseWithOptions: the document decodes and is copied
Convert ==
  /\ npc = "decode"
  /\ xnzb.ok
  /\ nzb' = [NilNzb EXCEPT !.Files = xnzb.Files]
  /\ npc' = "unique"
  /\ UNCHANGED <<xnzb, opts, nerr>>
  /\ UNCHANGED subjectVars

\* lines 115-117 of ParseWithOptions
Unique ==
  /\ npc = "unique"
  /\ nzb' = IF opts.RemoveDuplicates THEN MakeUnique(nzb) ELSE nzb
  /\ npc' = "scan"
  /\ UNCHANGED <<xnzb, opts, nerr>>
  /\ UNCHANGED subjectVars

\* line 120 of ParseWithOptions
Scan ==
  /\ npc = "scan"
  /\ nzb' = ScanNzbFile(nzb)
  /\ npc' = "sortfiles"
  /\ UNCHANGED <<xnzb, opts, nerr>>
  /\ UNCHANGED subjectVars

\* line 123 of ParseWithOptions
SortFiles ==
  /\ npc = "sortfiles"
  /\ \E q \in Sort(nzb.Files) : nzb' = [nzb EXCEPT !.Files = q]
  /\ npc' = "sortsegments"
  /\ UNCHANGED <<xnzb, opts, nerr>>
  /\ UNCHANGED subjectVars

\* lines 125-127 of ParseWithOptions
SortSegments ==
  /\ npc = "sortsegments"
  /\ \E q \in SortSegmentsOf(nzb.Files) : nzb' = [nzb EXCEPT !.Files = q]
  /\ npc' = "return"
  /\ UNCHANGED <<xnzb, opts, nerr>>
  /\ UNCHANGED subjectVars

\* line 129 of ParseWithOptions
ReturnNzb ==
  /\ npc = "return"
  /\ nerr' = "nil"
  /\ npc' = "done"
  /\ UNCHANGED <<xnzb, opts, nzb>>
  /\ UNCHANGED subjectVars

NextNzb ==
  \/ DecodeError
  \/ Convert
  \/ Unique
  \/ Scan
  \/ SortFiles
  \/ SortSegments
  \/ ReturnNzb

SpecNzb == InitNzb /\ [][NextNzb]_vars
SpecScan == InitScan /\ [][NextNzb]_vars

----------------
(* Vocabulary of the properties. *)

\* the number pairs of a subject line, from left to right
Pairs(str) ==
  SelectSeq(findAllNamedMatches(numbersRE, numbersNames, str),
            LAMBDA m : m["files"] # <<>> \/ m["segments"] # <<>>)

\* a pair in square or angle brackets, or bare / a pair in round brackets
IsBracketed(m) == m["files"] # <<>>
IsParenthesised(m) == m["segments"] # <<>>
PairIndex(m) == IF IsBracketed(m) THEN Atoi(m["file"]) ELSE Atoi(m["segment"])
PairTotal(m) == IF IsBracketed(m) THEN Atoi(m["totalfiles"]) ELSE Atoi(m["totalsegments"])

\* str contains digits/digits: a digit, a slash and a digit, separated by spaces only
HasSlashPair(str) ==
  \E i \in 1..Len(str), k \in 1..Len(str), j \in 1..Len(str) :
    /\ i < k /\ k < j
    /\ str[i] \in Digit /\ str[k] = "/" /\ str[j] \in Digit
    /\ \A l \in (i + 1)..(j - 1) : l # k => str[l] = " "

\* str contains "N of M" or "N von M"
HasOfPhrase(str) ==
  \E i \in 1..Len(str), k \in 1..Len(str), j \in 1..Len(str) :
    /\ i < k /\ k < j
    /\ str[i] \in Digit /\ str[j] \in Digit
    /\ \E w \in {<<"o", "f">>, <<"v", "o", "n">>} :
         /\ k + Len(w) - 1 < j
         /\ ToLower(SubStr(str, k, k + Len(w) - 1)) = w
         /\ \A l \in (i + 1)..(j - 1) : (l < k \/ l >= k + Len(w)) => str[l] = " "

Done == pc = "done"

----------------------------------------------------------------------------
(* Properties. *)

\* C1: when the two rightmost number pairs of the subject have the same
\* shape (both bracketed or both parenthesised) and all four values are
\* non-zero, the left pair is returned as file index/total and the right pair
\* as segment index/total.
C1_SameShapePairs ==
  Done =>
    LET P == Pairs(subject.Subject)
        n == Len(P)
    IN (/\ n >= 2
        /\ IsBracketed(P[n - 1]) = IsBracketed(P[n])
        /\ PairIndex(P[n - 1]) # 0 /\ PairTotal(P[n - 1]) # 0
        /\ PairIndex(P[n]) # 0 /\ PairTotal(P[n]) # 0)
       => /\ subject.File = PairIndex(P[n - 1])
          /\ subject.TotalFiles = PairTotal(P[n - 1])
          /\ subject.Segment = PairIndex(P[n])
          /\ subject.TotalSegments = PairTotal(P[n])

\* a returned subject whose two rightmost pairs are both parenthesised, or
\* both bracketed, with different non-zero values
C1_Witness ==
  /\ Done
  /\ LET P == Pairs(subject.Subject)
         n == Len(P)
     IN /\ n >= 2
        /\ IsBracketed(P[n - 1]) = IsBracketed(P[n])
        /\ PairIndex(P[n - 1]) # 0 /\ PairTotal(P[n - 1]) # 0
        /\ PairIndex(P[n]) # 0 /\ PairTotal(P[n]) # 0
        /\ PairIndex(P[n - 1]) # PairIndex(P[n])
        /\ subject.File = PairIndex(P[n - 1])
        /\ subject.Segment = PairIndex(P[n])

\* C2: for a subject with exactly two number pairs, one bracketed and one
\* parenthesised, all values at least 1, the bracketed pair is returned as
\* file index/total and the parenthesised pair as segment index/total,
\* whichever comes first.
C2_MixedShapePairs ==
  Done =>
    LET P == Pairs(subject.Subject)
    IN (/\ Len(P) = 2
        /\ IsBracketed(P[1]) # IsBracketed(P[2])
        /\ \A k \in 1..2 : PairIndex(P[k]) >= 1 /\ PairTotal(P[k]) >= 1)
       => LET b == IF IsBracketed(P[1]) THEN P[1] ELSE P[2]
              p == IF IsBracketed(P[1]) THEN P[2] ELSE P[1]
          IN /\ subject.File = PairIndex(b)
             /\ subject.TotalFiles = PairTotal(b)
             /\ subject.Segment = PairIndex(p)
             /\ subject.TotalSegments = PairTotal(p)

\* a returned subject with a parenthesised pair followed by a bracketed pair
C2_Witness ==
  /\ Done
  /\ LET P == Pairs(subject.Subject)
     IN /\ Len(P) = 2
        /\ IsParenthesised(P[1]) /\ IsBracketed(P[2])
        /\ \A k \in 1..2 : PairIndex(P[k]) >= 1 /\ PairTotal(P[k]) >= 1
        /\ subject.File = PairIndex(P[2])
        /\ subject.Segment = PairIndex(P[1])

\* C3: an input without digits/digits and without "N of M" / "N von M" is
\* returned with file index, file total, segment index and segment total 1.
C3_DefaultsWithoutNumbering ==
  (Done /\ ~HasSlashPair(s) /\ ~HasOfPhrase(s))
    => /\ subject.File = 1 /\ subject.TotalFiles = 1
       /\ subject.Segment = 1 /\ subject.TotalSegments = 1

\* a returned non-empty subject without numbering
C3_Witness ==
  /\ Done /\ ~HasSlashPair(s) /\ ~HasOfPhrase(s)
  /\ subject.Subject # <<>>
  /\ subject.File = 1 /\ subject.TotalSegments = 1

\* the positions of the parenthesised / bracketed pairs among the pairs P
ParenthesisedIn(P) == {k \in 1..Len(P) : IsParenthesised(P[k])}
BracketedIn(P) == {k \in 1..Len(P) : IsBracketed(P[k])}

\* C4: segment total 0 is never returned; a subject whose one parenthesised
\* pair has total 0 (with at most one bracketed pair, of non-zero values,
\* beside it) is returned like a subject without segment pair: segment
\* index and total 1, and file index and total 1 when there is no file
\* numbering at all.
C4_ZeroTotalIsMissingPair ==
  Done =>
    /\ subject.TotalSegments # 0
    /\ LET P == Pairs(subject.Subject)
           par == ParenthesisedIn(P)
           bra == BracketedIn(P)
       IN (/\ Cardinality(par) = 1
           /\ \A k \in par : PairTotal(P[k]) = 0
           /\ Cardinality(bra) <= 1
           /\ \A k \in bra : PairIndex(P[k]) >= 1 /\ PairTotal(P[k]) >= 1)
          => /\ subject.Segment = 1 /\ subject.TotalSegments = 1
             /\ (bra = {} /\ ~HasOfPhrase(s))
                  => (subject.File = 1 /\ subject.TotalFiles = 1)

\* the only number pair of the subject is a parenthesised pair of total 0
OnlyPairHasZeroTotal ==
  LET P == Pairs(subject.Subject)
  IN Len(P) = 1 /\ IsParenthesised(P[1]) /\ PairTotal(P[1]) = 0

\* C5 as stated: when the only number pair is a parenthesised pair of total
\* 0, segment total 0 is returned with the parsed segment index.
C5_ZeroTotalReturned ==
  (Done /\ OnlyPairHasZeroTotal)
    => /\ subject.TotalSegments = 0
       /\ subject.Segment = PairIndex(Pairs(subject.Subject)[1])

\* C5, amended: when the only number pair is a parenthesised pair of total
\* 0, the pair counts as found (the found flag is set and the pair is taken
\* out of the remainder), and the 1/1 default replaces the parsed values:
\* segment index and segment total are returned as 1.
C5_ZeroTotalDefaulted ==
  (pc \in {"defaults", "done"} /\ OnlyPairHasZeroTotal)
    => /\ foundNumbers
       /\ ~HasSlashPair(remainder)
       /\ Done => (subject.Segment = 1 /\ subject.TotalSegments = 1)

\* a returned subject whose only pair is (4/0): the parsed index 4 is replaced
C5_Witness ==
  /\ Done /\ OnlyPairHasZeroTotal
  /\ PairIndex(Pairs(subject.Subject)[1]) # 1
  /\ foundNumbers
  /\ subject.Segment = 1 /\ subject.TotalSegments = 1

\* C6: the four returned numbers are at least 1, whatever the input.
C6_PositiveNumbers ==
  Done => /\ subject.File >= 1 /\ subject.TotalFiles >= 1
          /\ subject.Segment >= 1 /\ subject.TotalSegments >= 1

\* x is made of characters of str and of the space that joins its pieces
IsExtracted(x, str) == Range(x) \subseteq Range(str) \cup {" "}

\* x is str without the spaces at its two ends
IsTrimmed(x, str) ==
  /\ x = <<>> \/ (x[1] # " " /\ x[Len(x)] # " ")
  /\ \E a \in 0..Len(str) :
       /\ a + Len(x) <= Len(str)
       /\ \A i \in 1..Len(x) : str[a + i] = x[i]
       /\ \A i \in 1..Len(str) : (i <= a \/ i > a + Len(x)) => str[i] = " "

\* C7: every call of ParseSubject returns; it returns the nil error and a
\* Subject whose Subject field is the input without the spaces at its ends,
\* whose texts are empty or made of characters of the input and whose numbers
\* are natural numbers.
C7_NeverFails ==
  /\ <>Done
  /\ [](Done => /\ err = "nil"
                /\ IsTrimmed(subject.Subject, s)
                /\ IsExtracted(subject.Header, s)
                /\ IsExtracted(subject.Filename, s)
                /\ IsExtracted(subject.Basefilename, s)
                /\ {subject.File, subject.TotalFiles,
                    subject.Segment, subject.TotalSegments} \subseteq Nat)

\* a returned subject without file name, of an input with a space at an end
C7_Witness ==
  /\ Done /\ err = "nil"
  /\ s # subject.Subject /\ subject.Subject # <<>>
  /\ subject.Filename = <<>>

\* C8: a header that is empty after the extraction passes is set to a
\* non-empty base file name, and remains equal to it until the return; on
\* return the header is empty only if the base file name is empty, also when
\* the leading-bracket fallback has produced the file name.
C8_HeaderBackfill ==
  /\ [](Done => (subject.Header = <<>> => subject.Basefilename = <<>>))
  /\ [][/\ (pc = "backfill" /\ subject.Header = <<>> /\ subject.Basefilename # <<>>)
            => subject'.Header = subject.Basefilename
        /\ (pc \in {"fallback", "return"} /\ subject.Basefilename # <<>>)
            => subject' = subject
        /\ (pc = "fallback" /\ subject'.Filename # subject.Filename)
            => (subject'.Header = <<>> => subject'.Basefilename = <<>>)]_vars

\* a returned subject whose file name was produced by the leading-bracket
\* fallback (the remainder is empty) and whose header is the base file name
C8_Witness ==
  /\ Done
  /\ remainder = <<>> /\ subject.Filename # <<>>
  /\ subject.Header # <<>> /\ subject.Header = subject.Basefilename

\* the slash-pair pass has assigned a file pair
FilePairFound == subject.File # 0 \/ subject.TotalFiles # 0

\* the first position of the run of digits that ends at position j of str
RunStart(str, j) ==
  CHOOSE q \in 1..j : /\ \A l \in q..j : str[l] \in Digit
                      /\ q = 1 \/ str[q - 1] \notin Digit

\* str[i..j] is "N of M" or "N von M" with N and M whole runs of digits
IsOfPhrase(str, i, j) ==
  /\ 1 <= i /\ i < j /\ j <= Len(str)
  /\ str[i] \in Digit /\ str[j] \in Digit
  /\ i = 1 \/ str[i - 1] \notin Digit
  /\ j = Len(str) \/ str[j + 1] \notin Digit
  /\ LET p == i + RunLen(str, i, Digit)
         q == RunStart(str, j)
     IN /\ p < q
        /\ ToLower(TrimSpace(SubStr(str, p, q - 1))) \in {<<"o", "f">>, <<"v", "o", "n">>}

\* the two numbers of the phrase str[i..j]
PhraseN(str, i) == Atoi(SubStr(str, i, i + RunLen(str, i, Digit) - 1))
PhraseM(str, j) == Atoi(SubStr(str, RunStart(str, j), j))

\* str without str[a..b], the text before and the text after joined by a space
Spliced(str, a, b) ==
  TrimSpace(TrimSpace(SubStr(str, 1, a - 1)) \o <<" ">>
            \o TrimSpace(SubStr(str, b + 1, Len(str))))

\* C9: in the pass of the defaults, a file pair found by the slash-pair
\* pass is left alone and so is the remainder, whatever phrase the remainder
\* contains; without such a pair, the leftmost "N of M" / "N von M" of the
\* remainder gives file index N and file total M and is cut out of the
\* remainder together with its brackets, and without a phrase file index and
\* file total are 1.
C9_OfFallback ==
  [][pc = "defaults" =>
       IF FilePairFound
       THEN /\ subject'.File = subject.File
            /\ subject'.TotalFiles = subject.TotalFiles
            /\ remainder' = remainder
       ELSE IF HasOfPhrase(remainder)
       THEN \E i \in 1..Len(remainder), j \in 1..Len(remainder) :
              /\ IsOfPhrase(remainder, i, j)
              /\ \A i2 \in 1..(i - 1), j2 \in 1..Len(remainder) :
                   ~IsOfPhrase(remainder, i2, j2)
              /\ subject'.File = PhraseN(remainder, i)
              /\ subject'.TotalFiles = PhraseM(remainder, j)
              /\ \E a \in 1..i, b \in j..Len(remainder) :
                   /\ \A l \in a..(i - 1) : remainder[l] \notin Digit
                   /\ \A l \in (j + 1)..b : remainder[l] \in {" ", "]", ">"}
                   /\ remainder' = Spliced(remainder, a, b)
       ELSE /\ subject'.File = 1 /\ subject'.TotalFiles = 1
            /\ remainder' = remainder]_vars

\* the extensions of the list of real archive and media extensions
RealExts ==
  { <<"p", "a", "r", "2">>, <<"r", "a", "r">>, <<"n", "f", "o">>, <<"s", "f", "v">>,
    <<"z", "i", "p">>, <<"7", "z">>, <<"m", "p", "4">>, <<"m", "k", "v">>,
    <<"a", "v", "i">>, <<"m", "o", "v">>, <<"m", "p", "3">>, <<"f", "l", "a", "c">>,
    <<"m", "4", "a">>, <<"j", "p", "g">>, <<"j", "p", "e", "g">>, <<"p", "n", "g">>,
    <<"g", "i", "f">>, <<"p", "d", "f">>, <<"t", "x", "t">> }

\* e is r followed by two digits
IsRNN(e) == Len(e) = 3 /\ e[1] = "r" /\ e[2] \in Digit /\ e[3] \in Digit

\* the positions of the dots of span behind which a real extension stands
RealExtDots(span) ==
  {k \in 2..Len(span) : /\ span[k] = "."
                        /\ LET e == ToLower(SubStr(span, k + 1, Len(span)))
                           IN e \in RealExts \/ IsRNN(e)}

EndsInRealExt(span) == RealExtDots(span) # {}

\* span without its real extension
MinusExt(span) == SubStr(span, 1, Min(RealExtDots(span)) - 1)

\* the text behind the last dot of name is a known extension or ends in rNN
EndsInKnownExt(name) ==
  \E k \in 1..Len(name) :
    /\ name[k] = "." /\ \A l \in (k + 1)..Len(name) : name[l] # "."
    /\ LET e == ToLower(SubStr(name, k + 1, Len(name)))
       IN e \in known \/ (Len(e) >= 3 /\ IsRNN(SubStr(e, Len(e) - 2, Len(e))))

\* the later quoted spans of the remainder that end in a real extension
LaterRealSpans ==
  {i \in 2..Len(Quoted(remainder)) : EndsInRealExt(TrimSpace(Quoted(remainder)[i]))}

\* the first of them
FirstRealSpan == TrimSpace(Quoted(remainder)[Min(LaterRealSpans)])

\* two quoted spans or more, the first without known extension, a later one
\* with a real extension
RepickCase ==
  /\ Len(Quoted(remainder)) >= 2
  /\ ~EndsInKnownExt(Quoted(remainder)[1])
  /\ LaterRealSpans # {}

\* header is empty, the base file name, or the file name up to case
HeaderReplaceable(subj) ==
  \/ subj.Header = <<>>
  \/ subj.Header = subj.Basefilename
  \/ EqualFold(subj.Header, subj.Filename)

\* in the case of the re-pick, file name and base file name are those of the
\* first later span with a real extension
RepickedFilename ==
  (Done /\ RepickCase)
    => /\ subject.Filename = FirstRealSpan
       /\ subject.Basefilename = Trim(MinusExt(FirstRealSpan), SpHy)

----------------------------------------------------------------------------

\* the characters an extension is made of
ExtChar == Char \ {" ", "\"", "."}

\* str has a final extension: its last dot is followed by extension characters
HasFinalExt(str) ==
  LastIndex(str, ".") # 0 /\ RunLen(str, LastIndex(str, ".") + 1, ExtChar) > 0

\* str up to and including its final extension
UpToFinalExt(str) ==
  SubStr(str, 1, LastIndex(str, ".") + RunLen(str, LastIndex(str, ".") + 1, ExtChar))

\* str before the dot of its final extension
BeforeFinalExt(str) == SubStr(str, 1, LastIndex(str, ".") - 1)

\* a single-file subject without quotes whose remainder has a final extension
UnquotedSingleFile ==
  /\ Done
  /\ "\"" \notin Range(s)
  /\ subject.TotalFiles = 1
  /\ HasFinalExt(remainder)

\* C11: for a single-file subject with an unquoted file name, the returned
\* filename is the remainder up to and including its final extension and
\* base_filename is the remainder before that extension, also when the name
\* has spaces and an earlier dot followed by a space.
C11_UnquotedFilename ==
  UnquotedSingleFile =>
    /\ subject.Filename = Trim(UpToFinalExt(remainder), SpHy)
    /\ subject.Basefilename = Trim(BeforeFinalExt(remainder), SpHy)


----------------------------------------------------------------------------

\* MakeUnique has returned: nzb is its result for the decoded file entries
AfterMakeUnique == npc = "scan" /\ opts.RemoveDuplicates

\* the IDs of a sequence of segments
IDs(segments) == {segments[i].ID : i \in 1..Len(segments)}

\* C13: after MakeUnique, the entry kept for a subject holds the segments of
\* all the entries that had that subject, each ID once.
C13_DuplicatesMerged ==
  AfterMakeUnique =>
    \A i \in 1..Len(nzb.Files) :
      IDs(nzb.Files[i].Segments) =
        UNION {IDs(xnzb.Files[j].Segments) :
                 j \in {j \in 1..Len(xnzb.Files) :
                          xnzb.Files[j].Subject = nzb.Files[i].Subject}}

\* the elements of x at the positions I, in their order in x
Pick(x, I) ==
  [k \in 1..Cardinality(I) |->
     x[CHOOSE i \in I : Cardinality({j \in I : j <= i}) = k]]

\* the positions of the first file entry of each subject
FirstOfSubject(files) ==
  {j \in 1..Len(files) : \A k \in 1..(j - 1) : files[k].Subject # files[j].Subject}

\* the positions of the first segment of each ID
FirstOfID(segments) ==
  {j \in 1..Len(segments) : \A k \in 1..(j - 1) : segments[k].ID # segments[j].ID}

AfterScanNzbFile == npc = "sortfiles"

\* the largest file total in the subjects of the file entries; 0 without entries
LargestFileTotal(files) ==
  LET Largest(totals) ==
        IF totals = {} THEN 0 ELSE CHOOSE m \in totals : \A n \in totals : n <= m
  IN Largest({ParsedSubject[files[i].Subject].subject.TotalFiles : i \in 1..Len(files)})

\* C15: after ScanNzbFile, TotalFiles of the Nzb is the larger of the number
\* of file entries and the largest file total of a subject: 0 without file
\* entries, 10 for the one entry whose subject says [1/10].
C15_TotalFiles ==
  AfterScanNzbFile =>
    /\ \E largest \in {LargestFileTotal(nzb.Files)} :
         /\ nzb.TotalFiles >= Len(nzb.Files)
         /\ nzb.TotalFiles >= largest
         /\ nzb.TotalFiles \in {Len(nzb.Files), largest}
    /\ nzb.Files = <<>> => nzb.TotalFiles = 0
    /\ (Len(nzb.Files) = 1 /\ SubStr(nzb.Files[1].Subject, 1, 6) = tBr110)
         => nzb.TotalFiles = 10

\* the scan of one entry whose subject says [1/10]
C15_Witness ==
  /\ AfterScanNzbFile
  /\ Len(nzb.Files) = 1
  /\ SubStr(nzb.Files[1].Subject, 1, 6) = tBr110
  /\ nzb.TotalFiles = 10

\* the sum of Bytes over a sequence of segments
RECURSIVE SumBytes(_)
SumBytes(segments) ==
  IF segments = <<>> THEN 0 ELSE Head(segments).Bytes + SumBytes(Tail(segments))

\* all the segments of a sequence of file entries
RECURSIVE AllSegments(_)
AllSegments(files) ==
  IF files = <<>> THEN <<>> ELSE Head(files).Segments \o AllSegments(Tail(files))

\* C16: after ScanNzbFile, Segments of the Nzb is the number of segments of
\* all its files, Bytes of the Nzb is the sum of their Bytes, and Bytes of
\* each file is the sum of the Bytes of its own segments, whatever it was.
C16_SegmentsAndBytes ==
  AfterScanNzbFile =>
    /\ nzb.Segments = Len(AllSegments(nzb.Files))
    /\ nzb.Bytes = SumBytes(AllSegments(nzb.Files))
    /\ \A i \in 1..Len(nzb.Files) :
         nzb.Files[i].Bytes = SumBytes(nzb.Files[i].Segments)

\* two files with segments, whose Bytes were something else before the scan
C16_Witness ==
  /\ AfterScanNzbFile
  /\ Len(nzb.Files) = 2
  /\ nzb.Segments >= 3
  /\ \A i \in 1..2 : /\ nzb.Files[i].Bytes > 0
                     /\ nzb.Files[i].Bytes # xnzb.Files[i].Bytes
  /\ nzb.Files[1].Bytes # nzb.Bytes

\* x is in non-decreasing order of Number
InOrder(x) == \A i \in 1..(Len(x) - 1) : x[i].Number <= x[i + 1].Number

\* x and y have the same entries, each as many times
SameEntries(x, y) ==
  /\ Len(x) = Len(y)
  /\ \A e \in Range(x) \cup Range(y) :
       Cardinality({i \in 1..Len(x) : x[i] = e}) = Cardinality({i \in 1..Len(y) : y[i] = e})

\* C17: a successful ParseWithOptions returns the files in non-decreasing
\* order of Number and the segments of every file in non-decreasing order
\* of Number; the two sorts neither add nor remove an entry.
C17_Sorted ==
  /\ [](npc = "done" /\ nerr = "nil" =>
          /\ InOrder(nzb.Files)
          /\ \A i \in 1..Len(nzb.Files) : InOrder(nzb.Files[i].Segments))
  /\ [][/\ npc = "sortfiles" => SameEntries(nzb.Files, nzb'.Files)
        /\ npc = "sortsegments" =>
             /\ Len(nzb'.Files) = Len(nzb.Files)
             /\ \A i \in 1..Len(nzb.Files) :
                  /\ SameEntries(nzb.Files[i].Segments, nzb'.Files[i].Segments)
                  /\ nzb'.Files[i] =
                       [nzb.Files[i] EXCEPT !.Segments = nzb'.Files[i].Segments]]_vars

\* a successful call whose document had its files and the segments of its
\* first file out of order
C17_Witness ==
  /\ npc = "done" /\ nerr = "nil"
  /\ ~opts.RemoveDuplicates
  /\ Len(nzb.Files) = 2
  /\ nzb.Files[1].Subject = xnzb.Files[2].Subject
  /\ nzb.Files[1].Number < nzb.Files[2].Number
  /\ \E i \in 1..2 : /\ Len(nzb.Files[i].Segments) = 2
                     /\ nzb.Files[i].Segments[1].Number < nzb.Files[i].Segments[2].Number
                     /\ \E j \in 1..2 : /\ Len(xnzb.Files[j].Segments) = 2
                                        /\ xnzb.Files[j].Segments[1].Number = nzb.Files[i].Segments[2].Number


----------------------------------------------------------------------------

\* the tokens that are a number pair
PairTokens == {tBr12, tBr034, tBr05, tBr50, tPa67, tPa89, tPa40}

\* the four numbers of a Subject
NumbersOf(subj) == <<subj.File, subj.TotalFiles, subj.Segment, subj.TotalSegments>>

\* str begins with the token a
BeginsWith(str, a) == Len(a) <= Len(str) /\ SubStr(str, 1, Len(a)) = a

\* str after its first n characters
After(str, n) == SubStr(str, n + 1, Len(str))

\* C18: when a subject has three or more number pairs, the four returned
\* numbers depend on the two rightmost pairs only: with any other pair in
\* the place of a pair further left, of any shape and values, ParseSubject
\* returns the same four numbers.
C18_TwoRightmostPairs ==
  Done =>
    \A a \in PairTokens :
      (BeginsWith(s, a) /\ Len(Pairs(After(s, Len(a)))) >= 2) =>
        \A b \in PairTokens :
          NumbersOf(ParseSubject(b \o After(s, Len(a))).subject) = NumbersOf(subject)


----------------------------------------------------------------------------

\* the slash-pair pass has run: remainder is what it hands on
AfterNumbers == pc = "defaults"

\* the text that precedes each number pair of str, from left to right
PreTexts(str) == [i \in 1..Len(Pairs(str)) |-> Pairs(str)[i]["remainder"]]

\* the text of str that follows its last number pair; str without pairs
TailAfterLastPair(str) ==
  LET EndsAt(P) == Min({k \in 0..Len(str) : Pairs(SubStr(str, 1, k)) = P})
  IN After(str, EndsAt(Pairs(str)))

\* str without its spaces
Squeeze(str) == SelectSeq(str, LAMBDA c : c # " ")

\* the non-empty texts among the trimmed texts, joined by single spaces
RECURSIVE JoinWords(_)
JoinWords(texts) ==
  IF texts = <<>> THEN <<>>
  ELSE IF TrimSpace(Head(texts)) = <<>> THEN JoinWords(Tail(texts))
  ELSE IF JoinWords(Tail(texts)) = <<>> THEN TrimSpace(Head(texts))
  ELSE TrimSpace(Head(texts)) \o <<" ">> \o JoinWords(Tail(texts))

\* C19 as stated: the remainder handed to the file name and header passes
\* is, up to spaces, the texts preceding the number pairs followed by the
\* text after the last pair.
C19_TailKept ==
  AfterNumbers =>
    Squeeze(remainder) =
      Squeeze(Flatten(PreTexts(subject.Subject)) \o TailAfterLastPair(subject.Subject))

\* C19: the remainder handed on by the slash-pair pass is the texts that
\* precede the number pairs, each trimmed, in their order, joined by single
\* spaces; the text after the last pair is not part of it.  For a subject
\* without number pair it is the whole subject.
C19_TailDropped ==
  AfterNumbers =>
    \E P \in {PreTexts(subject.Subject)} :
      remainder = IF P = <<>> THEN subject.Subject ELSE JoinWords(P)

\* a subject with text before its number pair and text after it
C19_Witness ==
  /\ AfterNumbers
  /\ Len(Pairs(subject.Subject)) = 1
  /\ Squeeze(PreTexts(subject.Subject)[1]) # <<>>
  /\ Squeeze(TailAfterLastPair(subject.Subject)) # <<>>
  /\ remainder = PreTexts(subject.Subject)[1]


----------------------------------------------------------------------------

\* the primary rule and its unquoted alternative have run
AfterSplit == pc = "dualquote"

\* the position of the first quote of str; 0 when it has none
FirstQuote(str) ==
  IF "\"" \in Range(str) THEN Min({i \in 1..Len(str) : str[i] = "\""}) ELSE 0

\* the position behind the run of quotes that begins at the first quote
SpanStart(str) == FirstQuote(str) + RunLen(str, FirstQuote(str), {"\""})

\* str has a quoted span: a quote follows the first run of quotes
HasQuotedSpan(str) ==
  FirstQuote(str) # 0 /\ "\"" \in Range(After(str, SpanStart(str) - 1))

\* the first quoted span of str: from the first run of quotes to the next quote
FirstSpan(str) ==
  SubStr(str, SpanStart(str),
         SpanStart(str) + RunLen(str, SpanStart(str), Char \ {"\""}) - 1)

\* the last quoted span of str
LastSpan(str) == Quoted(str)[Len(Quoted(str))]

\* the text of str before the opening quote of its last quoted span
BeforeLastSpan(str) ==
  SubStr(str, 1, Max({i \in 1..Len(str) :
                        /\ str[i] = "\""
                        /\ BeginsWith(After(str, i), LastSpan(str) \o <<"\"">>)}) - 1)

\* C20 as stated: when the remainder has several quoted spans, the primary
\* rule makes the last quoted span the file name and the text before its
\* opening quote the header; of two quoted spans that both end in a known
\* extension the second is the returned file name.
C20_LastSpan ==
  /\ (AfterSplit /\ Len(Quoted(remainder)) >= 2) =>
       /\ subject.Filename = Trim(LastSpan(remainder), SpHy)
       /\ subject.Header = Trim(BeforeLastSpan(remainder), SpHy)
  /\ (/\ Done
      /\ Len(Quoted(remainder)) = 2
      /\ \A i \in 1..2 : EndsInKnownExt(Quoted(remainder)[i]))
       => subject.Filename = Trim(Quoted(remainder)[2], SpHy)

\* C20: when the remainder has a quoted span, the primary rule makes the
\* first quoted span the file name and the text before its opening quotes
\* the header, however many quoted spans follow; of several quoted spans of
\* which the first ends in a known extension, the first is the returned
\* file name.
C20_FirstSpan ==
  /\ (AfterSplit /\ HasQuotedSpan(remainder)) =>
       /\ subject.Filename = Trim(FirstSpan(remainder), SpHy)
       /\ subject.Header = Trim(SubStr(remainder, 1, FirstQuote(remainder) - 1), SpHy)
  /\ (/\ Done
      /\ Len(Quoted(remainder)) >= 2
      /\ EndsInKnownExt(Quoted(remainder)[1]))
       => subject.Filename = Trim(Quoted(remainder)[1], SpHy)

\* the primary rule has run on a remainder with a header text and two
\* different quoted spans
C20_Witness ==
  /\ AfterSplit
  /\ Len(Quoted(remainder)) = 2
  /\ Quoted(remainder)[1] # Quoted(remainder)[2]
  /\ FirstQuote(remainder) > 1
  /\ subject.Header # <<>>
  /\ subject.Filename = Quoted(remainder)[1]

----------------------------------------------------------------------------

\* the passes that follow the file name and header split
LaterPasses == {"dualquote", "refine", "backfill", "fallback"}

\* the three texts of a Subject that the passes fill
TextFields == {"Header", "Filename", "Basefilename"}

\* x is a quoted span of the remainder other than the first, trimmed
IsLaterSpan(x) ==
  \E i \in 2..Len(Quoted(remainder)) : x = TrimSpace(Quoted(remainder)[i])

\* C21 as stated: the passes run in the order numbering, split, dual-quote,
\* refinement, backfill, leading-bracket fallback; a pass after the split
\* fills only fields that the earlier passes left empty, so that a file name
\* that is set is never replaced; the fallback changes nothing when the file
\* name is non-empty.
C21_SetFieldsKept ==
  [][/\ pc' = NextPass[pc]
     /\ pc \in LaterPasses
          => \A f \in TextFields : subject[f] # <<>> => subject'[f] = subject[f]
     /\ (pc = "fallback" /\ subject.Filename # <<>>) => subject' = subject]_vars

\* C21: the passes run in the order numbering, split, dual-quote, refinement,
\* backfill, leading-bracket fallback, and no pass after the numbering changes
\* the numbers, the subject text or the remainder.  The dual-quote pass acts
\* only on a file name that is set and has no extension, the refinement only
\* on a file name that is set and has no known extension; both replace it by
\* a later quoted span of the remainder, and the dual-quote pass keeps a
\* header that is set.  The backfill changes the header only, and only an
\* empty one.  The fallback changes nothing when the file name is non-empty.
C21_PassOrder ==
  [][/\ pc' = NextPass[pc]
     /\ pc \in LaterPasses \cup {"split", "return"}
          => /\ remainder' = remainder
             /\ subject'.Subject = subject.Subject
             /\ subject'.File = subject.File
             /\ subject'.TotalFiles = subject.TotalFiles
             /\ subject'.Segment = subject.Segment
             /\ subject'.TotalSegments = subject.TotalSegments
     /\ (pc = "dualquote" /\ subject' # subject)
          => /\ subject.Filename # <<>>
             /\ subject.Filename = subject.Basefilename
             /\ IsLaterSpan(subject'.Filename)
             /\ subject.Header # <<>> => subject'.Header = subject.Header
     /\ (pc = "refine" /\ subject' # subject)
          => /\ subject.Filename # <<>>
             /\ ~EndsInKnownExt(subject.Filename)
             /\ IsLaterSpan(subject'.Filename)
             /\ EndsInRealExt(subject'.Filename)
     /\ (pc = "backfill" /\ subject' # subject)
          => /\ subject.Header = <<>>
             /\ subject' = [subject EXCEPT !.Header = subject.Basefilename]
     /\ (pc = "fallback" /\ subject.Filename # <<>>) => subject' = subject
     /\ pc = "return" => subject' = subject]_vars

\* the dual-quote pass has replaced the file name of the splitter, the first
\* quoted span, by the second
C21_Witness ==
  /\ pc = "refine"
  /\ Len(Quoted(remainder)) = 2
  /\ SplitPass(subject, remainder).Filename = Quoted(remainder)[1]
  /\ subject.Filename = Quoted(remainder)[2]
  /\ subject.Filename # Quoted(remainder)[1]

----------------------------------------------------------------------------

\* the number of quote characters of str
QuoteCount(str) == Cardinality({i \in 1..Len(str) : str[i] = "\""})

\* str contains a quoted span, possibly an empty one: an opening and a
\* closing quote
ContainsQuotedSpan(str) == QuoteCount(str) >= 2

\* the extension that begins behind the dot at position k of str, possibly
\* empty, is followed by a space, by a quote or by the end of str
EndsName(str, k) ==
  LET e == k + 1 + RunLen(str, k + 1, ExtChar)
  IN e > Len(str) \/ str[e] \in {" ", "\""}

\* str contains an unquoted name with an extension
ContainsNameWithExt(str) ==
  \E k \in 1..Len(str) : str[k] = "." /\ EndsName(str, k)

\* C22: when the remainder contains neither a quoted span nor an unquoted
\* name with an extension, the splitter makes the remainder, trimmed of
\* spaces and hyphens, both file name and base file name if the file total
\* is 1, and leaves both empty if the file total is not 1.
C22_TertiaryRule ==
  (AfterSplit /\ ~ContainsQuotedSpan(remainder) /\ ~ContainsNameWithExt(remainder))
    => IF subject.TotalFiles = 1
       THEN /\ subject.Filename = Trim(remainder, SpHy)
            /\ subject.Basefilename = Trim(remainder, SpHy)
       ELSE /\ subject.Filename = <<>>
            /\ subject.Basefilename = <<>>

\* the splitter has run on a single-file remainder without quoted span and
\* without extension, which has a quote, a hyphen and a space to trim
C22_Witness ==
  /\ AfterSplit
  /\ ~ContainsQuotedSpan(remainder) /\ ~ContainsNameWithExt(remainder)
  /\ subject.TotalFiles = 1
  /\ QuoteCount(remainder) = 1
  /\ subject.Filename # <<>>
  /\ subject.Filename # remainder
  /\ subject.Filename = Trim(remainder, SpHy)

----------------------------------------------------------------------------

\* index and total of each number pair of str
PairValues(str) ==
  LET Values(P) == {<<PairIndex(P[k]), PairTotal(P[k])>> : k \in 1..Len(P)}
  IN Values(Pairs(str))

\* the text in which the "N of M" phrase is searched: the texts that precede
\* the number pairs, joined; the whole of str when it has no pair
PhraseText(str) ==
  IF PreTexts(str) = <<>> THEN str ELSE JoinWords(PreTexts(str))

\* x is N and M of an "N of M" phrase of str
IsPhraseOf(x, str) ==
  \E i \in 1..Len(str), j \in 1..Len(str) :
    IsOfPhrase(str, i, j) /\ x = <<PhraseN(str, i), PhraseM(str, j)>>

\* C23: in every result file index and file total are the index and total
\* of one number pair of the subject, or N and M of one "N of M" phrase, or
\* both 1, and segment index and segment total are the index and total of
\* one number pair or both 1, whatever the pairs and their zeros.
C23_SameSource ==
  Done =>
    /\ \/ <<subject.File, subject.TotalFiles>> = <<1, 1>>
       \/ <<subject.File, subject.TotalFiles>> \in PairValues(subject.Subject)
       \/ IsPhraseOf(<<subject.File, subject.TotalFiles>>, PhraseText(subject.Subject))
    /\ \/ <<subject.Segment, subject.TotalSegments>> = <<1, 1>>
       \/ <<subject.Segment, subject.TotalSegments>> \in PairValues(subject.Subject)

\* a returned subject of three pairs, the last with total 0, whose first pair
\* is the file pair and whose second pair is the segment pair
C23_Witness ==
  /\ Done
  /\ Len(Pairs(subject.Subject)) = 3
  /\ PairTotal(Pairs(subject.Subject)[3]) = 0
  /\ <<subject.File, subject.TotalFiles>>
       = <<PairIndex(Pairs(subject.Subject)[1]), PairTotal(Pairs(subject.Subject)[1])>>
  /\ <<subject.Segment, subject.TotalSegments>>
       = <<PairIndex(Pairs(subject.Subject)[2]), PairTotal(Pairs(subject.Subject)[2])>>
  /\ subject.File # subject.Segment
  /\ subject.TotalFiles # subject.TotalSegments

----------------------------------------------------------------------------

\* the Numbers of segments are positive and differ from one another
DistinctPositive(segments) ==
  /\ \A i \in 1..Len(segments) : segments[i].Number >= 1
  /\ \A i, j \in 1..Len(segments) : i # j => segments[i].Number # segments[j].Number

\* the segment total of the subject of file, and the Numbers of its segments
TotalAndNumbers(file) ==
  {ParsedSubject[file.Subject].subject.TotalSegments}
    \cup {file.Segments[i].Number : i \in 1..Len(file.Segments)}

\* C24: if in every file the Numbers of the segments are distinct positive
\* integers, then after ScanNzbFile the TotalSegments of every file, which is
\* the largest of the segment total of its subject and the Numbers of its
\* segments, is at least the number of its segments, and the Segments of
\* the Nzb are at most its TotalSegments.
C24_SegmentsWithinTotal ==
  (/\ AfterScanNzbFile
   /\ \A f \in 1..Len(nzb.Files) : DistinctPositive(nzb.Files[f].Segments))
    => /\ \A f \in 1..Len(nzb.Files) :
            /\ nzb.Files[f].TotalSegments = Max(TotalAndNumbers(nzb.Files[f]))
            /\ nzb.Files[f].TotalSegments >= Len(nzb.Files[f].Segments)
       /\ nzb.Segments <= nzb.TotalSegments

\* ScanNzbFile has returned for two files with distinct positive Numbers:
\* one whose subject total is above the Numbers of its two segments, one
\* whose highest Number is above its subject total
C24_Witness ==
  /\ AfterScanNzbFile
  /\ Len(nzb.Files) = 2
  /\ \A f \in 1..2 : DistinctPositive(nzb.Files[f].Segments)
  /\ \E f \in 1..2 :
        /\ Len(nzb.Files[f].Segments) = 2
        /\ nzb.Files[f].TotalSegments = ParsedSubject[nzb.Files[f].Subject].subject.TotalSegments
        /\ nzb.Files[f].TotalSegments >= nzb.Files[f].Segments[2].Number
  /\ \E f \in 1..2 :
        /\ Len(nzb.Files[f].Segments) = 2
        /\ nzb.Files[f].TotalSegments > ParsedSubject[nzb.Files[f].Subject].subject.TotalSegments
  /\ nzb.Segments = 4
  /\ nzb.Segments < nzb.TotalSegments


====
